---- MODULE Spec2Model ----
(***************************************************************************)
(* Image post-processing pipeline of bramato/mock-generator:               *)
(* ImageUrlExtractor, DescriptionGenerator, ImageProcessingAnalyzer,       *)
(* PostProcessingOrchestrator (generation driver) and UrlReplacer.         *)
(*                                                                         *)
(* Strings are sequences of tokens.  A URL is tokenised at its             *)
(* separators ("/", "?"), a path at ".", "[" and "]", a context value at   *)
(* its characters, so that the regular expressions and the string          *)
(* operations of the code are exact on the vocabulary used here.  A path   *)
(* and a URL are values of the same kind and can be compared, as the two   *)
(* JavaScript strings can.                                                 *)
(*                                                                         *)
(* A JSON value is a node [t, s, kids]: t is the JavaScript type tag       *)
(* ("obj", "arr", "str", "num", "null"), s the string of a "str" node,     *)
(* kids the entries <<[k, v], ...>> of an object (in Object.entries        *)
(* order) or the items of an array (k unused).                             *)
(***************************************************************************)
EXTENDS Integers, Sequences, FiniteSets, TLC

VARIABLES
  pc,            \* position of the run
  options,       \* PostProcessingOrchestrator.options (normalised)
  data,          \* the caller's document (may be mutated in place)
  data0,         \* the caller's document as it was when processData was called
  images,        \* extraction.images / the analyzer's input list
  descriptions,  \* Map<path, ImageDescription> as a function
  optimization,  \* OptimizationResult
  batches,       \* generateImages: the batches of sorted groups
  batchIndex,    \* generateImages: index of the current batch (1-based)
  running,       \* per sorted group: the position of its processGroup activation
  outcome,       \* per sorted group: the promise processGroup returned
  results,       \* generateImages: the results list
  providerCalls, \* per sorted group: number of ImageGenerator.generateImage calls made
  stats,         \* PostProcessingOrchestrator.processingStats.phases
  result,        \* PostProcessingResult of processData
  caught,        \* message of the error the catch block of processData caught, if any
  visited        \* performReplacements in progress: number of replaceUrl calls made

vars == <<pc, options, data, data0, images, descriptions, optimization, batches,
          batchIndex, running, outcome, results, providerCalls, stats, result, caught,
          visited>>

-----------------------------------------------------------------------------
(* Bounds *)

MaxImages == 3
MaxConcurrent == 3

-----------------------------------------------------------------------------
(* Generic sequence helpers *)

Range(s) == { s[i] : i \in DOMAIN s }

RECURSIVE SumSeq(_)
SumSeq(s) == IF s = <<>> THEN 0 ELSE Head(s) + SumSeq(Tail(s))

RECURSIVE FlattenSeq(_)
FlattenSeq(ss) == IF ss = <<>> THEN <<>> ELSE Head(ss) \o FlattenSeq(Tail(ss))

Min2(a, b) == IF a < b THEN a ELSE b
Max2(a, b) == IF a > b THEN a ELSE b

\* The empty string, also standing for undefined where the code tests truthiness.
EmptyStr == <<>>

-----------------------------------------------------------------------------
(* Tokens and numbers *)

\* parseInt on the all-digit tokens of the vocabulary
NumVal ==
  [ t \in {"0", "1", "2", "3", "100", "200", "300", "400", "500", "600", "800"} |->
      CASE t = "0" -> 0 [] t = "1" -> 1 [] t = "2" -> 2 [] t = "3" -> 3
        [] t = "100" -> 100 [] t = "200" -> 200 [] t = "300" -> 300
        [] t = "400" -> 400 [] t = "500" -> 500 [] t = "600" -> 600
        [] t = "800" -> 800 ]

\* \d+ : the token is a run of digits
IsDigits(t) == t \in DOMAIN NumVal

parseInt(t) == NumVal[t]

\* `${index}` for an array index
IndexToken(i) == CASE i = 0 -> "0" [] i = 1 -> "1" [] i = 2 -> "2" [] OTHER -> "3"

\* tokens on which the case-sensitive /https?:\/\/picsum\.photos/ matches
PicsumHosts == {"https://picsum.photos", "http://picsum.photos"}

\* tokens on which the case-insensitive (flag i) variant matches
PicsumHostsAnyCase == PicsumHosts \cup {"HTTPS://PICSUM.PHOTOS"}

\* tokens that contain the substring picsum.photos (case-sensitive)
ContainsPicsumPhotos(t) == t \in PicsumHosts

\* String.prototype.toLowerCase on one token
LowerToken(t) ==
  CASE t = "HTTPS://PICSUM.PHOTOS" -> "https://picsum.photos"
    [] t = "Milano" -> "milano"
    [] OTHER -> t

toLowerCase(s) == [ i \in DOMAIN s |-> LowerToken(s[i]) ]

\* token at position i, or "" past the end
At(s, i) == IF i \in DOMAIN s THEN s[i] ELSE ""

\* a path segment matched by [^\/]+ (one token that is no separator)
IsSegment(t) == t /= "" /\ t /= "/" /\ t /= "?"

\* smallest index at which P holds, 0 if none (the position of a regex match)
FirstMatch(matches) ==
  IF matches /= {}
  THEN CHOOSE i \in matches : \A j \in matches : i <= j
  ELSE 0

-----------------------------------------------------------------------------
(* JSON values *)

Str(s) == [t |-> "str", s |-> s, kids |-> <<>>]
Num == [t |-> "num", s |-> <<>>, kids |-> <<>>]
Null == [t |-> "null", s |-> <<>>, kids |-> <<>>]
Obj(kids) == [t |-> "obj", s |-> <<>>, kids |-> kids]
Arr(items) == [t |-> "arr", s |-> <<>>,
               kids |-> [ i \in DOMAIN items |-> [k |-> <<>>, v |-> items[i]] ]]
KV(k, v) == [k |-> k, v |-> v]

\* a reference back to an enclosing object: an object graph with a cycle
Cyclic == [t |-> "cyclic", s |-> <<>>, kids |-> <<>>]

\* typeof value === 'object' (true of null as well)
TypeofObject(n) == n.t \in {"obj", "arr", "null", "cyclic"}

\* JavaScript truthiness of a JSON value
Truthy(n) ==
  CASE n.t = "null" -> FALSE
    [] n.t = "str" -> n.s /= <<>>
    [] OTHER -> TRUE

\* obj[field], Null standing for undefined
HasField(obj, field) == obj.t = "obj" /\ \E i \in DOMAIN obj.kids : obj.kids[i].k = field
GetField(obj, field) ==
  IF HasField(obj, field)
  THEN obj.kids[CHOOSE i \in DOMAIN obj.kids : obj.kids[i].k = field].v
  ELSE Null

-----------------------------------------------------------------------------
(* ImageUrlExtractor *)

\* /https?:\/\/picsum\.photos\/(\d+)\/(\d+)(?:\?.*)?/gi
Pattern1(s, i) ==
  /\ s[i] \in PicsumHostsAnyCase
  /\ At(s, i + 1) = "/" /\ IsDigits(At(s, i + 2))
  /\ At(s, i + 3) = "/" /\ IsDigits(At(s, i + 4))

\* /https?:\/\/picsum\.photos\/(\d+)(?:\?.*)?/gi
Pattern2(s, i) ==
  /\ s[i] \in PicsumHostsAnyCase
  /\ At(s, i + 1) = "/" /\ IsDigits(At(s, i + 2))

\* /https?:\/\/picsum\.photos\/seed\/([^\/]+)\/(\d+)\/(\d+)(?:\?.*)?/gi
Pattern3(s, i) ==
  /\ s[i] \in PicsumHostsAnyCase
  /\ At(s, i + 1) = "/" /\ At(s, i + 2) = "seed"
  /\ At(s, i + 3) = "/" /\ IsSegment(At(s, i + 4))
  /\ At(s, i + 5) = "/" /\ IsDigits(At(s, i + 6))
  /\ At(s, i + 7) = "/" /\ IsDigits(At(s, i + 8))

\* /https?:\/\/picsum\.photos\/v2\/list(?:\?.*)?/gi
Pattern4(s, i) ==
  /\ s[i] \in PicsumHostsAnyCase
  /\ At(s, i + 1) = "/" /\ At(s, i + 2) = "v2"
  /\ At(s, i + 3) = "/" /\ At(s, i + 4) = "list"

\* ImageUrlExtractor.isPicsumUrl: some pattern matches somewhere in the string
ExtractorIsPicsumUrl(url) ==
  \E i \in DOMAIN url :
    Pattern1(url, i) \/ Pattern2(url, i) \/ Pattern3(url, i) \/ Pattern4(url, i)

\* url.match(/picsum\.photos\/(\d+)\/(\d+)/)
DimWH(s, i) ==
  /\ ContainsPicsumPhotos(s[i])
  /\ At(s, i + 1) = "/" /\ IsDigits(At(s, i + 2))
  /\ At(s, i + 3) = "/" /\ IsDigits(At(s, i + 4))

\* url.match(/picsum\.photos\/seed\/[^\/]+\/(\d+)\/(\d+)/)
DimSeedWH(s, i) ==
  /\ ContainsPicsumPhotos(s[i])
  /\ At(s, i + 1) = "/" /\ At(s, i + 2) = "seed"
  /\ At(s, i + 3) = "/" /\ IsSegment(At(s, i + 4))
  /\ At(s, i + 5) = "/" /\ IsDigits(At(s, i + 6))
  /\ At(s, i + 7) = "/" /\ IsDigits(At(s, i + 8))

\* url.match(/picsum\.photos\/(\d+)(?:\?|$)/)
DimSquare(s, i) ==
  /\ ContainsPicsumPhotos(s[i])
  /\ At(s, i + 1) = "/" /\ IsDigits(At(s, i + 2))
  /\ (i + 2 = Len(s) \/ At(s, i + 3) = "?")

NoDimensions == [ok |-> FALSE, width |-> 0, height |-> 0]
Dimensions(w, h) == [ok |-> TRUE, width |-> w, height |-> h]

\* ImageUrlExtractor.extractDimensions (ok = FALSE stands for null)
ExtractorExtractDimensions(url) ==
  LET a == FirstMatch({i \in DOMAIN url : DimWH(url, i)})
      b == FirstMatch({i \in DOMAIN url : DimSeedWH(url, i)})
      c == FirstMatch({i \in DOMAIN url : DimSquare(url, i)})
  IN IF a /= 0 THEN Dimensions(parseInt(url[a + 2]), parseInt(url[a + 4]))
     ELSE IF b /= 0 THEN Dimensions(parseInt(url[b + 6]), parseInt(url[b + 8]))
     ELSE IF c /= 0 THEN Dimensions(parseInt(url[c + 2]), parseInt(url[c + 2]))
     ELSE NoDimensions

\* url.match(/picsum\.photos\/seed\/([^\/\?]+)/)
SeedAt(s, i) ==
  /\ ContainsPicsumPhotos(s[i])
  /\ At(s, i + 1) = "/" /\ At(s, i + 2) = "seed"
  /\ At(s, i + 3) = "/" /\ IsSegment(At(s, i + 4))

\* extractSeed (same code in ImageUrlExtractor and in UrlReplacer); EmptyStr is undefined
extractSeed(url) ==
  LET a == FirstMatch({i \in DOMAIN url : SeedAt(url, i)})
  IN IF a /= 0 THEN <<url[a + 4]>> ELSE EmptyStr

IsQuestionMark(s, i) == s[i] = "?"

\* url.replace(/\?.*$/, '')
StripQuery(url) ==
  LET q == FirstMatch({i \in DOMAIN url : IsQuestionMark(url, i)})
  IN IF q /= 0 THEN SubSeq(url, 1, q - 1) ELSE url

\* ImageUrlExtractor.normalizeUrl
ExtractorNormalizeUrl(url) == toLowerCase(StripQuery(url))

\* ImageUrlExtractor.parseImageUrl; ok = FALSE stands for the null result.
\* ref is the identity of the context object (its position in the document).
parseImageUrl(url, path, fieldName, context, itemIndex, ref) ==
  LET dimensions == ExtractorExtractDimensions(url)
  IN [ok |-> dimensions.ok,
      url |-> url, path |-> path, fieldName |-> fieldName,
      context |-> context, ref |-> ref,
      dimensions |-> [width |-> dimensions.width, height |-> dimensions.height],
      seed |-> extractSeed(url), itemIndex |-> itemIndex]

\* `${currentPath}[${index}]` or `[${index}]`
ArrayPath(currentPath, index) == currentPath \o <<"[", IndexToken(index), "]">>

\* currentPath ? `${currentPath}.${key}` : key
KeyPath(currentPath, key) ==
  IF currentPath /= <<>> THEN currentPath \o <<".">> \o key ELSE key

\* ImageUrlExtractor.traverseObject, returning the occurrences it pushes
RECURSIVE traverseObject(_, _, _, _)
traverseObject(obj, currentPath, itemIndex, ref) ==
  IF obj.t = "arr" THEN
    FlattenSeq([ i \in DOMAIN obj.kids |->
      traverseObject(obj.kids[i].v, ArrayPath(currentPath, i - 1), i - 1, Append(ref, i)) ])
  ELSE IF obj.t = "obj" THEN
    FlattenSeq([ i \in DOMAIN obj.kids |->
      LET key == obj.kids[i].k
          value == obj.kids[i].v
          newPath == KeyPath(currentPath, key)
      IN IF value.t = "str" /\ ExtractorIsPicsumUrl(value.s)
         THEN LET imageInfo == parseImageUrl(value.s, newPath, key, obj, itemIndex, ref)
              IN IF imageInfo.ok THEN <<imageInfo>> ELSE <<>>
         ELSE IF TypeofObject(value)
         THEN traverseObject(value, newPath, itemIndex, Append(ref, i))
         ELSE <<>> ])
  ELSE <<>>

\* extractPicsumUrls, lines 563-575: the result built from the occurrences found
ExtractionResult(imgs) ==
  [images |-> imgs,
   totalFound |-> Len(imgs),
   uniqueUrls |-> Cardinality({ ExtractorNormalizeUrl(imgs[i].url) : i \in DOMAIN imgs })]

\* ImageUrlExtractor.extractPicsumUrls
extractPicsumUrls(d) == ExtractionResult(traverseObject(d, <<>>, 0, <<>>))

-----------------------------------------------------------------------------
(* ImageProcessingAnalyzer *)
(* confidence is kept in tenths (0.8 is 8), estimatedCost and totalCost in *)
(* tenths of a generation (1.0 is 10, 0.3 is 3); comparisons of quotients  *)
(* are cross-multiplied, so they are exact.                                *)

\* SIMILARITY_THRESHOLD = 0.8, as the fraction ThresholdNum / ThresholdDen
SimilarityThresholdNum == 8
SimilarityThresholdDen == 10
\* MIN_RESIZE_RATIO = 0.5 and MAX_RESIZE_RATIO = 2.0: widthRatio >= 1/2, widthRatio <= 2
MinResizeRatioDen == 2
MaxResizeRatio == 2
\* CROP_EFFICIENCY_THRESHOLD = 0.6, in tenths
CropEfficiencyThreshold == 6

\* descriptions.get(path) is defined
HasDescription(descs, path) == path \in DOMAIN descs

\* new Set(prompt.toLowerCase().split(/\s+/)): a prompt is the sequence of its words,
\* a word a string; splitting the empty string yields the one word ""
PromptWords(prompt) ==
  IF prompt = <<>> THEN {EmptyStr} ELSE { toLowerCase(prompt[i]) : i \in DOMAIN prompt }

\* ImageProcessingAnalyzer.calculateDescriptionSimilarity, as a fraction [num, den]:
\* 0.4 * (category equal) + 0.4 * |intersection| / |union| + 0.2 * (style equal)
calculateDescriptionSimilarity(desc1, desc2) ==
  LET words1 == PromptWords(desc1.prompt)
      words2 == PromptWords(desc2.prompt)
      intersection == Cardinality(words1 \cap words2)
      union == Cardinality(words1 \cup words2)
      categorySimilarity == IF desc1.category = desc2.category THEN 4 ELSE 0
      styleSimilarity == IF desc1.style = desc2.style THEN 2 ELSE 0
  IN [num |-> (categorySimilarity + styleSimilarity) * union + 4 * intersection,
      den |-> 10 * union]

\* ImageProcessingAnalyzer.levenshteinDistance(str1, str2)
RECURSIVE levenshteinDistance(_, _)
levenshteinDistance(str1, str2) ==
  IF Len(str2) = 0 THEN Len(str1)
  ELSE IF Len(str1) = 0 THEN Len(str2)
  ELSE LET a == SubSeq(str1, 1, Len(str1) - 1)
           b == SubSeq(str2, 1, Len(str2) - 1)
       IN IF str2[Len(str2)] = str1[Len(str1)]
          THEN levenshteinDistance(a, b)
          ELSE Min2(levenshteinDistance(a, b) + 1,
                    Min2(levenshteinDistance(a, str2) + 1,
                         levenshteinDistance(str1, b) + 1))

\* ImageProcessingAnalyzer.calculateStringSimilarity, as a fraction [num, den]
calculateStringSimilarity(str1, str2) ==
  LET longer == IF Len(str1) > Len(str2) THEN str1 ELSE str2
      shorter == IF Len(str1) > Len(str2) THEN str2 ELSE str1
  IN IF Len(longer) = 0 THEN [num |-> 1, den |-> 1]
     ELSE [num |-> Len(longer) - levenshteinDistance(longer, shorter),
           den |-> Len(longer)]

\* context1[field] === context2[field]: by value for primitives, by reference for
\* objects and arrays (the same field of the same context object)
StrictEquals(img1, img2, field) ==
  LET v1 == GetField(img1.context, field)
      v2 == GetField(img2.context, field)
  IN /\ v1.t = v2.t
     /\ CASE v1.t = "str" -> v1.s = v2.s
          [] v1.t \in {"obj", "arr"} -> img1.ref = img2.ref
          [] OTHER -> TRUE

\* const keyFields = ['category', 'type', 'brand', 'location', 'name']
keyFields == << <<"category">>, <<"type">>, <<"brand">>, <<"location">>, <<"name">> >>

\* the contribution of one key field to the similarity: [cmp, num, den]
FieldSimilarity(img1, img2, field) ==
  LET v1 == GetField(img1.context, field)
      v2 == GetField(img2.context, field)
  IN IF Truthy(v1) /\ Truthy(v2)
     THEN IF StrictEquals(img1, img2, field) THEN [cmp |-> 1, num |-> 1, den |-> 1]
          ELSE IF v1.t = "str" /\ v2.t = "str"
          THEN LET f == calculateStringSimilarity(v1.s, v2.s)
               IN [cmp |-> 1, num |-> f.num, den |-> f.den]
          ELSE [cmp |-> 1, num |-> 0, den |-> 1]
     ELSE [cmp |-> 0, num |-> 0, den |-> 1]

\* sum of the fractions s[1..n], as one fraction
RECURSIVE SumFractions(_)
SumFractions(s) ==
  IF s = <<>> THEN [num |-> 0, den |-> 1]
  ELSE LET r == SumFractions(Tail(s))
       IN [num |-> Head(s).num * r.den + r.num * Head(s).den,
           den |-> Head(s).den * r.den]

\* ImageProcessingAnalyzer.calculateContextSimilarity, as a fraction [num, den]
calculateContextSimilarity(img1, img2) ==
  LET per == [ i \in DOMAIN keyFields |-> FieldSimilarity(img1, img2, keyFields[i]) ]
      comparisons == SumSeq([ i \in DOMAIN per |-> per[i].cmp ])
      similarity == SumFractions(per)
  IN IF img1.context.t /= "obj" \/ img2.context.t /= "obj" THEN [num |-> 0, den |-> 1]
     ELSE IF comparisons > 0
     THEN [num |-> similarity.num, den |-> similarity.den * comparisons]
     ELSE [num |-> 0, den |-> 1]

\* f >= SIMILARITY_THRESHOLD
AtLeastThreshold(f) == f.num * SimilarityThresholdDen >= SimilarityThresholdNum * f.den

\* the test of groupBySimilarity, line 101
Similar(image, otherImage, descs) ==
  \/ AtLeastThreshold(calculateDescriptionSimilarity(descs[image.path], descs[otherImage.path]))
  \/ AtLeastThreshold(calculateContextSimilarity(image, otherImage))

\* an inner loop that compares each image with the member added last
RECURSIVE CollectSimilarChained(_, _, _, _, _, _)
CollectSimilarChained(imgs, descs, image, j, currentGroup, processed) ==
  IF j > Len(imgs) THEN [group |-> currentGroup, processed |-> processed]
  ELSE IF imgs[j].path \in processed \/ ~HasDescription(descs, imgs[j].path)
  THEN CollectSimilarChained(imgs, descs, image, j + 1, currentGroup, processed)
  ELSE IF Similar(currentGroup[Len(currentGroup)], imgs[j], descs)
  THEN CollectSimilarChained(imgs, descs, image, j + 1, Append(currentGroup, imgs[j]),
                             processed \cup {imgs[j].path})
  ELSE CollectSimilarChained(imgs, descs, image, j + 1, currentGroup, processed)

\* the inner forEach of groupBySimilarity from index j on: [group, processed]
RECURSIVE CollectSimilar(_, _, _, _, _, _)
CollectSimilar(imgs, descs, image, j, currentGroup, processed) ==
  IF j > Len(imgs) THEN [group |-> currentGroup, processed |-> processed]
  ELSE LET otherImage == imgs[j]
       IN IF otherImage.path \in processed \/ ~HasDescription(descs, otherImage.path)
          THEN CollectSimilar(imgs, descs, image, j + 1, currentGroup, processed)
          ELSE IF Similar(image, otherImage, descs)
          THEN CollectSimilar(imgs, descs, image, j + 1,
                              Append(currentGroup, otherImage),
                              processed \cup {otherImage.path})
          ELSE CollectSimilar(imgs, descs, image, j + 1, currentGroup, processed)

\* the outer forEach of groupBySimilarity from index i on
RECURSIVE GroupFrom(_, _, _, _, _)
GroupFrom(imgs, descs, i, groups, processed) ==
  IF i > Len(imgs) THEN groups
  ELSE LET image == imgs[i]
       IN IF image.path \in processed
          THEN GroupFrom(imgs, descs, i + 1, groups, processed)
          ELSE IF ~HasDescription(descs, image.path)
          THEN GroupFrom(imgs, descs, i + 1, groups, processed \cup {image.path})
          ELSE LET c == CollectSimilar(imgs, descs, image, 1, <<image>>,
                                       processed \cup {image.path})
               IN GroupFrom(imgs, descs, i + 1, Append(groups, c.group), c.processed)

\* ImageProcessingAnalyzer.groupBySimilarity
groupBySimilarity(imgs, descs) == GroupFrom(imgs, descs, 1, <<>>, {})

\* the score of selectMasterImage, times 10000:
\* (confidence || 0) * 100 + width * height / 10000
MasterScore(image, descs) ==
  (IF HasDescription(descs, image.path) THEN descs[image.path].confidence ELSE 0) * 100000
  + image.dimensions.width * image.dimensions.height

\* a reduce that lets a later image of equal score win
RECURSIVE ReduceMasterLast(_, _, _, _)
ReduceMasterLast(imgs, descs, i, best) ==
  IF i > Len(imgs) THEN best
  ELSE ReduceMasterLast(imgs, descs, i + 1,
         IF MasterScore(imgs[i], descs) >= MasterScore(best, descs) THEN imgs[i] ELSE best)

\* images.reduce((best, current) => currentScore > bestScore ? current : best)
RECURSIVE ReduceMaster(_, _, _, _)
ReduceMaster(imgs, descs, i, best) ==
  IF i > Len(imgs) THEN best
  ELSE ReduceMaster(imgs, descs, i + 1,
         IF MasterScore(imgs[i], descs) > MasterScore(best, descs) THEN imgs[i] ELSE best)

\* ImageProcessingAnalyzer.selectMasterImage
selectMasterImage(imgs, descs) == ReduceMaster(imgs, descs, 2, imgs[1])

\* ImageProcessingAnalyzer.canCropEfficiently
canCropEfficiently(sourceDims, targetDims) ==
  LET sourceArea == sourceDims.width * sourceDims.height
      targetArea == targetDims.width * targetDims.height
  IN /\ targetDims.width <= sourceDims.width
     /\ targetDims.height <= sourceDims.height
     /\ 10 * targetArea >= CropEfficiencyThreshold * sourceArea

NoCrop == [ok |-> FALSE, x |-> 0, y |-> 0, width |-> 0, height |-> 0]

\* ImageProcessingAnalyzer.calculateOptimalCrop
calculateOptimalCrop(sourceDims, targetDims) ==
  [ok |-> TRUE,
   x |-> Max2(0, sourceDims.width - targetDims.width) \div 2,
   y |-> Max2(0, sourceDims.height - targetDims.height) \div 2,
   width |-> targetDims.width, height |-> targetDims.height]

\* substrings (among the keywords the code looks for) of the tokens used as field names
TokenKeywords(t) ==
  CASE t = "thumb" -> {"thumb"}
    [] t = "thumbnail" -> {"thumb", "thumbnail"}
    [] t = "banner" -> {"banner"}
    [] t = "hero" -> {"hero"}
    [] t = "avatar" -> {"avatar"}
    [] t = "logo" -> {"logo"}
    [] t = "productthumbnail" -> {"product", "thumb", "thumbnail"}
    [] OTHER -> {}

\* fieldName.toLowerCase().includes(keyword)
FieldNameIncludes(fieldName, keyword) ==
  \E i \in DOMAIN fieldName : keyword \in TokenKeywords(LowerToken(fieldName[i]))

\* Math.round(Math.log10(area / 10000)): k iff 10^(k+3.5) <= area < 10^(k+4.5);
\* log10(0) is -Infinity
RoundLog10Area(area) ==
  CASE area >= 3162278 -> 3
    [] area >= 316228 /\ area < 3162278 -> 2
    [] area >= 31623 /\ area < 316228 -> 1
    [] area >= 3163 /\ area < 31623 -> 0
    [] area >= 317 /\ area < 3163 -> -1
    [] area >= 32 /\ area < 317 -> -2
    [] area >= 4 /\ area < 32 -> -3
    [] area >= 1 /\ area < 4 -> -4
    [] OTHER -> -1000

\* ImageProcessingAnalyzer.calculatePriority: confidence * 10 and the field bonus are
\* integers, so rounding the sum rounds the logarithm
calculatePriority(image, description) ==
  LET bonus == IF FieldNameIncludes(image.fieldName, "banner")
                  \/ FieldNameIncludes(image.fieldName, "hero") THEN 5
               ELSE IF FieldNameIncludes(image.fieldName, "thumb") THEN -2
               ELSE 0
      area == image.dimensions.width * image.dimensions.height
      priority == description.confidence + bonus + RoundLog10Area(area)
  IN Max2(1, Min2(10, priority))

\* the cascade without its resize branch
VariantTypeNoResize(targetDims, masterDims) ==
  IF targetDims.width = masterDims.width /\ targetDims.height = masterDims.height
  THEN "reuse"
  ELSE IF canCropEfficiently(masterDims, targetDims) THEN "crop"
  ELSE "generate"

\* the processing type chosen by createVariantPlan, lines 311-343
VariantType(targetDims, masterDims) ==
  LET \* |widthRatio - heightRatio| < 0.1
      cross == targetDims.width * masterDims.height - targetDims.height * masterDims.width
      absCross == IF cross < 0 THEN -cross ELSE cross
      aspectRatioMatch == 10 * absCross < masterDims.width * masterDims.height
  IN IF targetDims.width = masterDims.width /\ targetDims.height = masterDims.height
     THEN "reuse"
     ELSE IF /\ aspectRatioMatch
             /\ MinResizeRatioDen * targetDims.width >= masterDims.width
             /\ targetDims.width <= MaxResizeRatio * masterDims.width
     THEN "resize"
     ELSE IF canCropEfficiently(masterDims, targetDims) THEN "crop"
     ELSE "generate"

\* estimatedCost of a processing type, in tenths
CostOf(processingType) ==
  CASE processingType = "reuse" -> 1
    [] processingType = "resize" -> 2
    [] processingType = "crop" -> 3
    [] OTHER -> 10

\* the plan of a master (optimizeGroup, lines 230-237 and 251-258)
MasterPlan(image, description) ==
  [imageId |-> image.path, processingType |-> "generate", sourceImageId |-> EmptyStr,
   targetDimensions |-> image.dimensions, cropRegion |-> NoCrop,
   description |-> description, priority |-> 1, estimatedCost |-> 10]

\* ImageProcessingAnalyzer.createVariantPlan
createVariantPlan(targetImage, masterImage, descs) ==
  LET targetDesc == descs[targetImage.path]
      processingType == VariantType(targetImage.dimensions, masterImage.dimensions)
  IN [imageId |-> targetImage.path,
      processingType |-> processingType,
      sourceImageId |-> IF processingType /= "generate" THEN masterImage.path ELSE EmptyStr,
      targetDimensions |-> targetImage.dimensions,
      cropRegion |-> IF processingType = "crop"
                     THEN calculateOptimalCrop(masterImage.dimensions, targetImage.dimensions)
                     ELSE NoCrop,
      description |-> targetDesc,
      priority |-> calculatePriority(targetImage, targetDesc),
      estimatedCost |-> CostOf(processingType)]

\* optimizeGroup without the early return of line 262: the master gets a second plan
VariantPlansKeepMaster(imgs, masterImage, descs, i) ==
  [ k \in DOMAIN imgs |-> createVariantPlan(imgs[k], masterImage, descs) ]

\* the variant plans pushed by the forEach of optimizeGroup, lines 261-267
RECURSIVE VariantPlans(_, _, _, _)
VariantPlans(imgs, masterImage, descs, i) ==
  IF i > Len(imgs) THEN <<>>
  ELSE IF imgs[i].path = masterImage.path THEN VariantPlans(imgs, masterImage, descs, i + 1)
  ELSE <<createVariantPlan(imgs[i], masterImage, descs)>>
       \o VariantPlans(imgs, masterImage, descs, i + 1)

\* ImageProcessingAnalyzer.optimizeGroup
optimizeGroup(imgs, descs) ==
  IF Len(imgs) = 1
  THEN [masterImageId |-> imgs[1].path,
        description |-> descs[imgs[1].path],
        targetDimensions |-> imgs[1].dimensions,
        variants |-> <<MasterPlan(imgs[1], descs[imgs[1].path])>>,
        totalCost |-> 10]
  ELSE LET masterImage == selectMasterImage(imgs, descs)
           masterDescription == descs[masterImage.path]
           others == VariantPlans(imgs, masterImage, descs, 1)
       IN [masterImageId |-> masterImage.path,
           description |-> masterDescription,
           targetDimensions |-> masterImage.dimensions,
           variants |-> <<MasterPlan(masterImage, masterDescription)>> \o others,
           totalCost |-> 10 + SumSeq([ i \in DOMAIN others |-> others[i].estimatedCost ])]

\* the number of variants of a type over all groups
CountType(groups, type) ==
  SumSeq([ g \in DOMAIN groups |->
    Cardinality({ v \in DOMAIN groups[g].variants :
                    groups[g].variants[v].processingType = type }) ])

\* ImageProcessingAnalyzer.calculateOptimizationResult.  estimatedSavings is the
\* fraction savingsNum / savingsDen (times 100); savingsDen = 0 is the NaN of 0 / 0.
calculateOptimizationResult(groups) ==
  LET totalImages == SumSeq([ g \in DOMAIN groups |-> Len(groups[g].variants) ])
      totalCostWithoutOptimization == 10 * totalImages
      totalCostWithOptimization == SumSeq([ g \in DOMAIN groups |-> groups[g].totalCost ])
  IN [groups |-> groups,
      totalImages |-> totalImages,
      generatedImages |-> CountType(groups, "generate"),
      resizedImages |-> CountType(groups, "resize"),
      croppedImages |-> CountType(groups, "crop"),
      reusedImages |-> CountType(groups, "reuse"),
      savingsNum |-> 100 * (totalCostWithoutOptimization - totalCostWithOptimization),
      savingsDen |-> totalCostWithoutOptimization]

\* ImageProcessingAnalyzer.createProcessingPlan
createProcessingPlan(imgs, descs) ==
  LET similarityGroups == groupBySimilarity(imgs, descs)
      processingGroups == [ g \in DOMAIN similarityGroups |->
                              optimizeGroup(similarityGroups[g], descs) ]
  IN calculateOptimizationResult(processingGroups)

\* sum of the priorities of a group's variants
PrioritySum(group) == SumSeq([ v \in DOMAIN group.variants |-> group.variants[v].priority ])

\* the comparator with its operands exchanged: avgPriorityA - avgPriorityB > 0
ComesBefore(a, b) ==
  PrioritySum(a) * Len(b.variants) > PrioritySum(b) * Len(a.variants)

\* the comparator of sortGroupsByPriority is positive: avgPriorityB - avgPriorityA > 0
ComesAfter(a, b) ==
  PrioritySum(b) * Len(a.variants) > PrioritySum(a) * Len(b.variants)

\* insertion of g into a sorted list, after every element it does not precede (stable)
RECURSIVE InsertSorted(_, _)
InsertSorted(sorted, g) ==
  IF sorted = <<>> THEN <<g>>
  ELSE IF ComesAfter(Head(sorted), g) THEN <<g>> \o sorted
  ELSE <<Head(sorted)>> \o InsertSorted(Tail(sorted), g)

RECURSIVE SortFrom(_, _, _)
SortFrom(groups, i, sorted) ==
  IF i > Len(groups) THEN sorted
  ELSE SortFrom(groups, i + 1, InsertSorted(sorted, groups[i]))

\* ImageProcessingAnalyzer.sortGroupsByPriority (Array.prototype.sort is stable)
sortGroupsByPriority(groups) == SortFrom(groups, 1, <<>>)

PathsOf(imgs) == { imgs[i].path : i \in DOMAIN imgs }

-----------------------------------------------------------------------------
(* DescriptionGenerator *)
(* A text is the sequence of its whitespace-separated words; a word is a   *)
(* string, a comma that follows it being its last token.                   *)

\* FIELD_TYPE_MAPPING, in declaration order
FIELD_TYPE_MAPPING ==
  <<
     [key |-> "product", phrase |-> << <<"professional">>, <<"product">>, <<"photography">> >>],
     [key |-> "item", phrase |-> << <<"clean">>, <<"product">>, <<"shot">> >>],
     [key |-> "article", phrase |-> << <<"item">>, <<"showcase">> >>],
     [key |-> "goods", phrase |-> << <<"commercial">>, <<"product">> >>],
     [key |-> "avatar", phrase |-> << <<"professional">>, <<"headshot">>, <<"portrait">> >>],
     [key |-> "profile", phrase |-> << <<"portrait">>, <<"photography">> >>],
     [key |-> "user", phrase |-> << <<"person">>, <<"portrait">> >>],
     [key |-> "author", phrase |-> << <<"professional">>, <<"author">>, <<"photo">> >>],
     [key |-> "customer", phrase |-> << <<"friendly">>, <<"customer">>, <<"portrait">> >>],
     [key |-> "logo", phrase |-> << <<"modern">>, <<"logo">>, <<"design">> >>],
     [key |-> "brand", phrase |-> << <<"brand">>, <<"identity">> >>],
     [key |-> "company", phrase |-> << <<"corporate">>, <<"branding">> >>],
     [key |-> "banner", phrase |-> << <<"professional">>, <<"banner">>, <<"design">> >>],
     [key |-> "header", phrase |-> << <<"website">>, <<"header">>, <<"image">> >>],
     [key |-> "background", phrase |-> << <<"clean">>, <<"background">>, <<"texture">> >>],
     [key |-> "hero", phrase |-> << <<"hero">>, <<"section">>, <<"image">> >>],
     [key |-> "thumbnail", phrase |-> << <<"preview">>, <<"image">> >>],
     [key |-> "cover", phrase |-> << <<"cover">>, <<"image">>, <<"design">> >>],
     [key |-> "featured", phrase |-> << <<"featured">>, <<"content">>, <<"image">> >>],
     [key |-> "location", phrase |-> << <<"beautiful">>, <<"location">>, <<"photography">> >>],
     [key |-> "place", phrase |-> << <<"scenic">>, <<"place">>, <<"photograph">> >>],
     [key |-> "destination", phrase |-> << <<"travel">>, <<"destination">> >>],
     [key |-> "venue", phrase |-> << <<"venue">>, <<"photography">> >>],
     [key |-> "shop", phrase |-> << <<"retail">>, <<"store">>, <<"interior">> >>],
     [key |-> "restaurant", phrase |-> << <<"restaurant">>, <<"ambiance">> >>],
     [key |-> "hotel", phrase |-> << <<"luxury">>, <<"hotel">>, <<"interior">> >>],
     [key |-> "food", phrase |-> << <<"appetizing">>, <<"food">>, <<"photography">> >>],
     [key |-> "dish", phrase |-> << <<"gourmet">>, <<"dish">>, <<"presentation">> >>],
     [key |-> "recipe", phrase |-> << <<"food">>, <<"styling">>, <<"photography">> >>],
     [key |-> "menu", phrase |-> << <<"restaurant">>, <<"menu">>, <<"photography">> >>],
     [key |-> "fashion", phrase |-> << <<"fashion">>, <<"photography">> >>],
     [key |-> "clothing", phrase |-> << <<"clothing">>, <<"product">>, <<"shot">> >>],
     [key |-> "accessory", phrase |-> << <<"fashion">>, <<"accessory">> >>],
     [key |-> "tech", phrase |-> << <<"modern">>, <<"technology">>, <<"product">> >>],
     [key |-> "gadget", phrase |-> << <<"tech">>, <<"gadget">>, <<"photography">> >>],
     [key |-> "sport", phrase |-> << <<"sports">>, <<"equipment">> >>],
     [key |-> "fitness", phrase |-> << <<"fitness">>, <<"and">>, <<"wellness">> >>],
     [key |-> "beauty", phrase |-> << <<"beauty">>, <<"product">>, <<"photography">> >>],
     [key |-> "home", phrase |-> << <<"home">>, <<"interior">>, <<"design">> >>],
     [key |-> "garden", phrase |-> << <<"garden">>, <<"and">>, <<"landscape">> >>],
     [key |-> "car", phrase |-> << <<"automotive">>, <<"photography">> >>],
     [key |-> "book", phrase |-> << <<"book">>, <<"cover">>, <<"design">> >>],
     [key |-> "art", phrase |-> << <<"artistic">>, <<"photography">> >>],
     [key |-> "music", phrase |-> << <<"music">>, <<"related">>, <<"imagery">> >>]
  >>

\* the word a context value spells (a context value is the sequence of its characters)
Join(chars) ==
  CASE chars = <<"a", "b", "c", "d", "e">> -> "abcde"
    [] chars = <<"a", "b", "c", "d", "f">> -> "abcdf"
    [] chars = <<"x", "y">> -> "xy"
    [] chars = <<"x", "y", "z">> -> "xyz"
    [] OTHER -> ""

\* the keys of FIELD_TYPE_MAPPING that the field name includes, in declaration order
MappingKeysIn(fieldName) ==
  SelectSeq([ i \in DOMAIN FIELD_TYPE_MAPPING |-> FIELD_TYPE_MAPPING[i].key ],
            LAMBDA key : FieldNameIncludes(fieldName, key))

\* DescriptionGenerator.analyzeFieldName: [keywords, confidence], confidence in tenths
analyzeFieldName(fieldName) ==
  LET hits == MappingKeysIn(fieldName)
      thumb == FieldNameIncludes(fieldName, "thumb")
      square == FieldNameIncludes(fieldName, "_1x1") \/ FieldNameIncludes(fieldName, "square")
      banner == FieldNameIncludes(fieldName, "banner") \/ FieldNameIncludes(fieldName, "header")
  IN [keywords |-> Range(hits)
                   \cup (IF thumb THEN {"thumbnail", "small"} ELSE {})
                   \cup (IF square THEN {"square", "centered"} ELSE {})
                   \cup (IF banner THEN {"banner", "wide", "header"} ELSE {}),
      confidence |-> 1 + 2 * Len(hits)
                     + (IF thumb THEN 3 ELSE 0)
                     + (IF square THEN 2 ELSE 0)
                     + (IF banner THEN 3 ELSE 0)]

\* const descriptiveFields = [...], analyzeContextData lines 251-255
descriptiveFields ==
  << <<"name">>, <<"title">>, <<"description">>, <<"caption">>, <<"alt">>,
     <<"product">>, <<"brand">>, <<"category">>, <<"type">>, <<"style">>,
     <<"location">>, <<"city">>, <<"address">>, <<"venue">>, <<"place">> >>

\* DescriptionGenerator.extractKeywords of a one-word value: the word, unless it has
\* at most two characters (no word of the vocabulary is a common word)
extractKeywords(value) ==
  IF Len(value) > 2 THEN {Join(toLowerCase(value))} ELSE {}

\* context.price || context.cost || context.amount, and the like
AnyTruthy(context, fields) == \E f \in fields : Truthy(GetField(context, f))

\* DescriptionGenerator.analyzeContextData: [description, keywords, confidence]
analyzeContextData(context) ==
  LET present == SelectSeq(descriptiveFields,
                   LAMBDA field : LET v == GetField(context, field)
                                  IN v.t = "str" /\ Truthy(v))
      commercial == AnyTruthy(context, {<<"price">>, <<"cost">>, <<"amount">>})
      creative == AnyTruthy(context, {<<"author">>, <<"creator">>, <<"artist">>})
  IN [description |-> [ i \in DOMAIN present |->
                          <<Join(toLowerCase(GetField(context, present[i]).s))>> ],
      keywords |-> UNION { extractKeywords(GetField(context, present[i]).s) :
                             i \in DOMAIN present }
                   \cup (IF commercial THEN {"commercial", "product"} ELSE {})
                   \cup (IF creative THEN {"creative", "professional"} ELSE {}),
      confidence |-> Min2(2 + Len(present)
                          + (IF commercial THEN 1 ELSE 0)
                          + (IF creative THEN 1 ELSE 0), 5)]

\* DescriptionGenerator.getGenericDescription
getGenericDescription(fieldName) ==
  IF FieldNameIncludes(fieldName, "thumb") THEN << <<"thumbnail">>, <<"image">> >>
  ELSE IF FieldNameIncludes(fieldName, "banner") THEN << <<"banner">>, <<"image">> >>
  ELSE IF FieldNameIncludes(fieldName, "avatar") THEN << <<"profile">>, <<"picture">> >>
  ELSE IF FieldNameIncludes(fieldName, "logo") THEN << <<"logo">>, <<"design">> >>
  ELSE IF FieldNameIncludes(fieldName, "background") THEN << <<"background">>, <<"image">> >>
  ELSE << <<"professional">>, <<"image">> >>

\* DescriptionGenerator.analyzeContext: [description, confidence, keywords]
analyzeContext(imageInfo) ==
  LET fieldAnalysis == analyzeFieldName(imageInfo.fieldName)
      isObject == imageInfo.context.t \in {"obj", "arr"}
      contextAnalysis == analyzeContextData(imageInfo.context)
      description == IF isObject THEN contextAnalysis.description ELSE <<>>
  IN [description |-> IF description /= <<>> THEN description
                      ELSE getGenericDescription(imageInfo.fieldName),
      confidence |-> Min2(5 + fieldAnalysis.confidence
                          + (IF isObject THEN contextAnalysis.confidence ELSE 0), 10),
      keywords |-> fieldAnalysis.keywords
                   \cup (IF isObject THEN contextAnalysis.keywords ELSE {})]

\* DescriptionGenerator.determineCategory
determineCategory(imageInfo, context) ==
  LET hits == MappingKeysIn(imageInfo.fieldName)
  IN IF hits /= <<>> THEN hits[1]
     ELSE IF "food" \in context.keywords \/ "dish" \in context.keywords THEN "food"
     ELSE IF "fashion" \in context.keywords \/ "clothing" \in context.keywords THEN "fashion"
     ELSE IF "location" \in context.keywords \/ "place" \in context.keywords THEN "location"
     ELSE "generic"

\* FIELD_TYPE_MAPPING[category] || 'professional photography'
FieldTypePhrase(category) ==
  IF \E i \in DOMAIN FIELD_TYPE_MAPPING : FIELD_TYPE_MAPPING[i].key = category
  THEN FIELD_TYPE_MAPPING[CHOOSE i \in DOMAIN FIELD_TYPE_MAPPING :
                            FIELD_TYPE_MAPPING[i].key = category].phrase
  ELSE << <<"professional">>, <<"photography">> >>

\* text + ', ' + phrase: the comma ends the last word of the text
AppendPhrase(text, phrase) ==
  IF text = <<>> THEN << <<",">> >> \o phrase
  ELSE [text EXCEPT ![Len(text)] = Append(@, ",")] \o phrase

\* DescriptionGenerator.generateBasePrompt (the confidence is above 0.3 and the
\* description is made of word characters, so the description is always prefixed)
generateBasePrompt(imageInfo, context, category) ==
  LET fieldType == FieldTypePhrase(category)
      prompt == IF context.description /= <<>> /\ context.confidence > 3
                THEN AppendPhrase(context.description, fieldType)
                ELSE fieldType
      width == imageInfo.dimensions.width
      height == imageInfo.dimensions.height
  IN IF width = height
     THEN AppendPhrase(prompt, << <<"square">>, <<"composition", ",">>, <<"centered">> >>)
     ELSE IF width > height * 2
     THEN AppendPhrase(prompt, << <<"wide">>, <<"banner">>, <<"format", ",">>,
                                  <<"horizontal">>, <<"composition">> >>)
     ELSE IF height > width
     THEN AppendPhrase(prompt, << <<"vertical">>, <<"composition", ",">>,
                                  <<"portrait">>, <<"orientation">> >>)
     ELSE prompt

\* the suffix enhancePrompt appends for a style
StylePhrase(style) ==
  CASE style = "professional" ->
         << <<"professional">>, <<"lighting", ",">>, <<"high">>, <<"quality", ",">>,
            <<"clean">>, <<"background">> >>
    [] style = "artistic" ->
         << <<"artistic">>, <<"composition", ",">>, <<"creative">>, <<"lighting", ",">>,
            <<"aesthetic">> >>
    [] style = "realistic" ->
         << <<"photorealistic", ",">>, <<"natural">>, <<"lighting", ",">>, <<"detailed">> >>
    [] OTHER ->
         << <<"casual">>, <<"style", ",">>, <<"natural">>, <<"look", ",">>,
            <<"everyday">>, <<"setting">> >>

\* DescriptionGenerator.getItalianContext: no keyword of the vocabulary is a substring
\* of a category of ITALIAN_STYLE_ADDITIONS, so the result is italian_context[0]
getItalianContext(keywords) == << <<"in">>, <<"Italian">>, <<"style">> >>

\* DescriptionGenerator.enhancePrompt (every prompt of the vocabulary is shorter
\* than the default maxPromptLength of 200 characters)
enhancePrompt(basePrompt, context, opts) ==
  LET styled == AppendPhrase(basePrompt, StylePhrase(opts.style))
  IN IF opts.language = "italian" /\ context.keywords /= {}
     THEN AppendPhrase(styled, getItalianContext(context.keywords))
     ELSE styled

\* DescriptionGenerator.normalizeOptions of the default (empty) descriptionOptions
DescriptionDefaults == [language |-> "italian", style |-> "professional"]

\* DescriptionGenerator.generateDescription
generateDescription(imageInfo, opts) ==
  LET context == analyzeContext(imageInfo)
      category == determineCategory(imageInfo, context)
      basePrompt == generateBasePrompt(imageInfo, context, category)
  IN [prompt |-> basePrompt, style |-> opts.style, category |-> category,
      confidence |-> context.confidence, baseContext |-> context.description,
      enhancedPrompt |-> enhancePrompt(basePrompt, context, opts)]

\* the text of a context value pushed into the key: its characters for a string
KeyPart(v) == IF v.t = "str" THEN v.s ELSE <<"[object]">>

\* `${width}x${height}`
DimensionsKey(dimensions) == <<dimensions.width, dimensions.height>>

\* DescriptionGenerator.generateContextKey: [parts joined by "_", dimensions]
generateContextKey(imageInfo) ==
  LET fields == SelectSeq(<< <<"category">>, <<"type">>, <<"brand">> >>,
                  LAMBDA f : Truthy(GetField(imageInfo.context, f)))
  IN [parts |-> FlattenSeq([ i \in DOMAIN fields |->
                  KeyPart(GetField(imageInfo.context, fields[i])) \o <<"_">> ]),
      dimensions |-> DimensionsKey(imageInfo.dimensions)]

\* DescriptionGenerator.groupByContext, flattened: the indices of the images in the
\* order generateDescriptions visits them (groups in order of first appearance)
RECURSIVE VisitOrder(_, _, _)
VisitOrder(imgs, i, done) ==
  IF i > Len(imgs) THEN <<>>
  ELSE IF i \in done THEN VisitOrder(imgs, i + 1, done)
  ELSE LET same == SelectSeq([ j \in DOMAIN imgs |-> j ],
                     LAMBDA j : generateContextKey(imgs[j]) = generateContextKey(imgs[i]))
       IN same \o VisitOrder(imgs, i + 1, done \cup Range(same))

\* DescriptionGenerator.generateDescriptions: the map keeps the description set last
\* for a path (the shared context passed as baseContext is dropped by normalizeOptions)
generateDescriptions(imgs, opts) ==
  LET order == VisitOrder(imgs, 1, {})
  IN [ p \in PathsOf(imgs) |->
       LET last == CHOOSE k \in DOMAIN order :
                     /\ imgs[order[k]].path = p
                     /\ \A m \in DOMAIN order : imgs[order[m]].path = p => m <= k
       IN generateDescription(imgs[order[last]], opts) ]

-----------------------------------------------------------------------------
(* UrlReplacer *)
(* A Map<string, string> is the sequence of its entries [k, v] in insertion *)
(* order.                                                                   *)

MapHas(m, key) == \E i \in DOMAIN m : m[i].k = key

\* Map.get, EmptyStr standing for undefined
MapGet(m, key) ==
  IF MapHas(m, key) THEN m[CHOOSE i \in DOMAIN m : m[i].k = key].v ELSE EmptyStr

\* Map.set: an existing key keeps its position
MapSet(m, key, value) ==
  IF MapHas(m, key)
  THEN [ i \in DOMAIN m |-> IF m[i].k = key THEN [k |-> key, v |-> value] ELSE m[i] ]
  ELSE Append(m, [k |-> key, v |-> value])

\* UrlReplacer.createUrlMappings, over imageResults[i..]
RECURSIVE createUrlMappingsFrom(_, _, _, _)
createUrlMappingsFrom(imageResults, i, urlMappings, cdnMappings) ==
  IF i > Len(imageResults) THEN [urlMappings |-> urlMappings, cdnMappings |-> cdnMappings]
  ELSE LET r == imageResults[i]
       IN IF r.success /\ r.newUrl /= EmptyStr
          THEN createUrlMappingsFrom(imageResults, i + 1,
                 MapSet(urlMappings, r.originalUrl, r.newUrl),
                 IF r.cdnUrl /= EmptyStr THEN MapSet(cdnMappings, r.originalUrl, r.cdnUrl)
                 ELSE cdnMappings)
          ELSE createUrlMappingsFrom(imageResults, i + 1, urlMappings, cdnMappings)

createUrlMappings(imageResults) == createUrlMappingsFrom(imageResults, 1, <<>>, <<>>)

\* UrlReplacer.isPicsumUrl: /https?:\/\/picsum\.photos/.test(url)
ReplacerIsPicsumUrl(url) == \E i \in DOMAIN url : url[i] \in PicsumHosts

\* UrlReplacer.normalizeUrl
ReplacerNormalizeUrl(url) ==
  LET lower == toLowerCase(StripQuery(url))
  IN IF lower /= <<>> /\ lower[Len(lower)] = "/" THEN SubSeq(lower, 1, Len(lower) - 1)
     ELSE lower

\* the offset of the first dimension token after the host at i:
\* 2 without the optional group (?:seed\/[^\/]+\/)?, 6 with it
SeedGroup(s, i) ==
  /\ At(s, i + 1) = "/" /\ At(s, i + 2) = "seed"
  /\ At(s, i + 3) = "/" /\ IsSegment(At(s, i + 4)) /\ At(s, i + 5) = "/"

WHAfter(s, i, o) ==
  /\ At(s, i + o - 1) = "/" /\ IsDigits(At(s, i + o))
  /\ At(s, i + o + 1) = "/" /\ IsDigits(At(s, i + o + 2))

SquareAfter(s, i, o) ==
  /\ At(s, i + o - 1) = "/" /\ IsDigits(At(s, i + o))
  /\ (i + o = Len(s) \/ At(s, i + o + 1) = "?")

\* url.match(/picsum\.photos\/(?:seed\/[^\/]+\/)?(\d+)\/(\d+)/)
ReplacerDimWH(s, i) ==
  ContainsPicsumPhotos(s[i]) /\ ((SeedGroup(s, i) /\ WHAfter(s, i, 6)) \/ WHAfter(s, i, 2))

\* url.match(/picsum\.photos\/(?:seed\/[^\/]+\/)?(\d+)(?:\?|$)/)
ReplacerDimSquare(s, i) ==
  ContainsPicsumPhotos(s[i])
  /\ ((SeedGroup(s, i) /\ SquareAfter(s, i, 6)) \/ SquareAfter(s, i, 2))

\* the dimensions captured by a match of the first pattern at a, else by a match of
\* the second at b (0: no match)
ReplacerDimensionsAt(url, a, b) ==
  IF a /= 0
  THEN IF SeedGroup(url, a) /\ WHAfter(url, a, 6)
       THEN Dimensions(parseInt(url[a + 6]), parseInt(url[a + 8]))
       ELSE Dimensions(parseInt(url[a + 2]), parseInt(url[a + 4]))
  ELSE IF b /= 0
  THEN IF SeedGroup(url, b) /\ SquareAfter(url, b, 6)
       THEN Dimensions(parseInt(url[b + 6]), parseInt(url[b + 6]))
       ELSE Dimensions(parseInt(url[b + 2]), parseInt(url[b + 2]))
  ELSE NoDimensions

\* UrlReplacer.extractDimensions (ok = FALSE stands for undefined)
ReplacerExtractDimensions(url) ==
  ReplacerDimensionsAt(url, FirstMatch({i \in DOMAIN url : ReplacerDimWH(url, i)}), FirstMatch({i \in DOMAIN url : ReplacerDimSquare(url, i)}))

\* findVariantMapping, lines 845-855: does the mapped URL stand for the original one
VariantMatches(originalSeed, originalDimensions, mappedSeed, mappedDimensions) ==
  \/ originalSeed /= EmptyStr /\ mappedSeed = originalSeed
  \/ /\ originalDimensions.ok /\ mappedDimensions.ok
     /\ originalDimensions.width = mappedDimensions.width
     /\ originalDimensions.height = mappedDimensions.height

\* the loop of findVariantMapping over the entries from index i on
RECURSIVE VariantFrom(_, _, _, _)
VariantFrom(urlMappings, i, originalSeed, originalDimensions) ==
  IF i > Len(urlMappings) THEN EmptyStr
  ELSE IF VariantMatches(originalSeed, originalDimensions,
                         extractSeed(urlMappings[i].k),
                         ReplacerExtractDimensions(urlMappings[i].k))
  THEN urlMappings[i].v
  ELSE VariantFrom(urlMappings, i + 1, originalSeed, originalDimensions)

\* findVariantMapping, lines 838-857, given the seed and dimensions of the original URL
VariantFor(urlMappings, originalSeed, originalDimensions) ==
  IF originalSeed = EmptyStr /\ ~originalDimensions.ok THEN EmptyStr
  ELSE VariantFrom(urlMappings, 1, originalSeed, originalDimensions)

\* UrlReplacer.findVariantMapping
findVariantMapping(originalUrl, urlMappings) ==
  VariantFor(urlMappings, extractSeed(originalUrl), ReplacerExtractDimensions(originalUrl))

\* UrlReplacer.generateFallbackUrl
generateFallbackUrl(originalUrl) == originalUrl

\* options normalized with backupOriginal forced to false
NormalizeWithoutBackup(o) ==
  [preferCdnUrls |-> o.preferCdnUrls,
   preserveOriginalOnFailure |-> o.preserveOriginalOnFailure,
   backupOriginal |-> FALSE]

\* UrlReplacer.normalizeOptions of the options that change the outcome
NormalizeReplacementOptions(o) ==
  [preferCdnUrls |-> o.preferCdnUrls,
   preserveOriginalOnFailure |-> o.preserveOriginalOnFailure,
   backupOriginal |-> o.backupOriginal]

NoReplacement ==
  [success |-> FALSE, replacedCount |-> 0, failedCount |-> 0, mappings |-> <<>>,
   errors |-> <<>>]

\* replaceUrl, lines 793-814: obj[key] becomes the final URL and a mapping is recorded
Replaced(key, originalUrl, path, cdnMappings, res, opts, itemIndex, newUrl, replacementType) ==
  [node |-> Str(IF opts.preferCdnUrls /\ MapHas(cdnMappings, originalUrl)
                THEN MapGet(cdnMappings, originalUrl) ELSE newUrl),
   res |-> [res EXCEPT
     !.mappings = Append(@,
        [originalUrl |-> originalUrl,
         newUrl |-> IF opts.preferCdnUrls /\ MapHas(cdnMappings, originalUrl)
                    THEN MapGet(cdnMappings, originalUrl) ELSE newUrl,
         cdnUrl |-> MapGet(cdnMappings, originalUrl),
         path |-> path, fieldName |-> key, itemIndex |-> itemIndex,
         replacementType |-> replacementType]),
     !.replacedCount = @ + 1]]

\* a failure that is reported but not counted
NotReplacedUncounted(originalUrl, path, res, opts) ==
  [node |-> Str(originalUrl),
   res |-> [res EXCEPT
     !.errors = Append(@, <<"No replacement found for URL: ">> \o originalUrl
                          \o <<" at ">> \o path)]]

\* replaceUrl, lines 816-822: obj[key] is left alone and the failure is counted
NotReplaced(originalUrl, path, res, opts) ==
  [node |-> Str(originalUrl),
   res |-> [res EXCEPT
     !.errors = IF opts.preserveOriginalOnFailure
                THEN Append(@, <<"No replacement found for URL: ">> \o originalUrl
                               \o <<" at ">> \o path)
                ELSE @,
     !.failedCount = @ + 1]]

\* urlMappings.get(originalUrl) || urlMappings.get(normalizedUrl)
DirectMapping(originalUrl, urlMappings) ==
  IF MapGet(urlMappings, originalUrl) /= EmptyStr THEN MapGet(urlMappings, originalUrl)
  ELSE MapGet(urlMappings, ReplacerNormalizeUrl(originalUrl))

\* replaceUrl, lines 788-822, when neither a direct nor a variant mapping was found
ReplaceByFallback(key, originalUrl, path, cdnMappings, res, opts, itemIndex) ==
  IF ~opts.preserveOriginalOnFailure /\ generateFallbackUrl(originalUrl) /= EmptyStr
  THEN Replaced(key, originalUrl, path, cdnMappings, res, opts, itemIndex,
                generateFallbackUrl(originalUrl), "fallback")
  ELSE NotReplaced(originalUrl, path, res, opts)

\* replaceUrl, lines 782-822, when no direct mapping was found
ReplaceByVariant(key, originalUrl, path, cdnMappings, res, opts, itemIndex, variant) ==
  IF variant /= EmptyStr
  THEN Replaced(key, originalUrl, path, cdnMappings, res, opts, itemIndex, variant,
                "variant")
  ELSE ReplaceByFallback(key, originalUrl, path, cdnMappings, res, opts, itemIndex)

\* replaceUrl, lines 778-822, given the direct mapping found
ReplaceByMapping(key, originalUrl, path, urlMappings, cdnMappings, res, opts, itemIndex, direct) ==
  IF direct /= EmptyStr
  THEN Replaced(key, originalUrl, path, cdnMappings, res, opts, itemIndex, direct,
                "direct")
  ELSE ReplaceByVariant(key, originalUrl, path, cdnMappings, res, opts, itemIndex,
                        findVariantMapping(originalUrl, urlMappings))

\* UrlReplacer.replaceUrl: [node, res], the new value of obj[key] and the result record
replaceUrl(key, originalUrl, path, urlMappings, cdnMappings, res, opts, itemIndex) ==
  ReplaceByMapping(key, originalUrl, path, urlMappings, cdnMappings, res, opts,
                   itemIndex, DirectMapping(originalUrl, urlMappings))

\* UrlReplacer.performReplacements: [node, res], the node after the replacements made
\* in it and the result record. ReplaceFrom is its loop over the entries from i on,
\* ReplaceNext the rest of the loop once entry i has become r.node
RECURSIVE performReplacements(_, _, _, _, _, _, _)
RECURSIVE ReplaceFrom(_, _, _, _, _, _, _, _)
RECURSIVE ReplaceNext(_, _, _, _, _, _, _, _)
ReplaceNext(obj, i, currentPath, urlMappings, cdnMappings, r, opts, itemIndex) ==
  ReplaceFrom([obj EXCEPT !.kids[i].v = r.node], i + 1, currentPath, urlMappings,
              cdnMappings, r.res, opts, itemIndex)

ReplaceFrom(obj, i, currentPath, urlMappings, cdnMappings, res, opts, itemIndex) ==
  IF i > Len(obj.kids) THEN [node |-> obj, res |-> res]
  ELSE IF obj.t = "arr" THEN
    ReplaceNext(obj, i, currentPath, urlMappings, cdnMappings,
      performReplacements(obj.kids[i].v, ArrayPath(currentPath, i - 1), urlMappings,
                          cdnMappings, res, opts, i - 1),
      opts, itemIndex)
  ELSE IF obj.kids[i].v.t = "str" /\ ReplacerIsPicsumUrl(obj.kids[i].v.s) THEN
    ReplaceNext(obj, i, currentPath, urlMappings, cdnMappings,
      replaceUrl(obj.kids[i].k, obj.kids[i].v.s, KeyPath(currentPath, obj.kids[i].k),
                 urlMappings, cdnMappings, res, opts, itemIndex),
      opts, itemIndex)
  ELSE IF obj.kids[i].v.t \in {"obj", "arr"} THEN
    ReplaceNext(obj, i, currentPath, urlMappings, cdnMappings,
      performReplacements(obj.kids[i].v, KeyPath(currentPath, obj.kids[i].k),
                          urlMappings, cdnMappings, res, opts, itemIndex),
      opts, itemIndex)
  ELSE ReplaceFrom(obj, i + 1, currentPath, urlMappings, cdnMappings, res, opts,
                   itemIndex)

performReplacements(obj, currentPath, urlMappings, cdnMappings, res, opts, itemIndex) ==
  IF obj.t \in {"obj", "arr"}
  THEN ReplaceFrom(obj, 1, currentPath, urlMappings, cdnMappings, res, opts, itemIndex)
  ELSE [node |-> obj, res |-> res]

\* UrlReplacer.deepClone
RECURSIVE deepClone(_)
deepClone(obj) ==
  IF obj.t \in {"obj", "arr"}
  THEN [t |-> obj.t, s |-> obj.s,
        kids |-> [ i \in DOMAIN obj.kids |->
                     [k |-> obj.kids[i].k, v |-> deepClone(obj.kids[i].v)] ]]
  ELSE obj

\* replaceUrls, lines 636-650: the ReplacementResult once performReplacements has
\* returned r
ReplacementResult(r) ==
  [success |-> r.res.failedCount = 0 \/ r.res.replacedCount > 0,
   replacedCount |-> r.res.replacedCount,
   failedCount |-> r.res.failedCount,
   mappings |-> r.res.mappings,
   modifiedData |-> r.node,
   errors |-> r.res.errors]

\* UrlReplacer.replaceUrls: the ReplacementResult, with modifiedData
replaceUrls(d, urlMappings, cdnMappings, replacementOptions) ==
  ReplacementResult(
    performReplacements(
      IF NormalizeReplacementOptions(replacementOptions).backupOriginal
      THEN deepClone(d) ELSE d,
      <<>>, urlMappings, cdnMappings, NoReplacement,
      NormalizeReplacementOptions(replacementOptions), 0))

-----------------------------------------------------------------------------
(* Inputs of the analyzer *)

Chars(a, b, c, d, e) == <<a, b, c, d, e>>

Dims(w, h) == [width |-> w, height |-> h]

\* an occurrence as the extractor records it
Occurrence(path, fieldName, w, h, context, ref) ==
  [ok |-> TRUE, url |-> <<"https://picsum.photos", "/", "800", "/", "600">>,
   path |-> path, fieldName |-> fieldName, context |-> context, ref |-> ref,
   dimensions |-> Dims(w, h), seed |-> EmptyStr, itemIndex |-> 0]

ContextPlain == Obj(<<>>)
ContextAbcde == Obj(<<KV(<<"name">>, Str(Chars("a", "b", "c", "d", "e")))>>)
ContextAbcdf == Obj(<<KV(<<"name">>, Str(Chars("a", "b", "c", "d", "f")))>>)
ContextXy == Obj(<<KV(<<"name">>, Str(<<"x", "y">>))>>)

\* The occurrences the analyzer's input lists are drawn from: equal dimensions (reuse),
\* half size (resize), same width and two thirds of the height (crop), a shape that
\* is none of these (generate), two occurrences with the same path (an object
\* key "a.b" beside a key "b" nested under "a"), and one of nearly the shape of the
\* 200x200 one at twice its width.
OccurrencePool ==
  { Occurrence(<<"a", ".", "b">>, <<"image">>, 800, 600, ContextAbcde, <<1>>),
    Occurrence(<<"c">>, <<"thumb">>, 800, 600, ContextAbcdf, <<2>>),
    Occurrence(<<"d">>, <<"banner">>, 400, 300, ContextPlain, <<3>>),
    Occurrence(<<"e">>, <<"image">>, 800, 400, ContextXy, <<4>>),
    Occurrence(<<"f">>, <<"hero">>, 100, 500, ContextPlain, <<5>>),
    Occurrence(<<"a", ".", "b">>, <<"a", ".", "b">>, 200, 200, ContextPlain, <<>>),
    Occurrence(<<"g">>, <<"image">>, 400, 370, ContextPlain, <<6>>) }

Description(category, confidence, prompt) ==
  [prompt |-> prompt, style |-> "professional", category |-> category,
   confidence |-> confidence, baseContext |-> <<>>, enhancedPrompt |-> prompt]

\* The descriptions drawn for them: the first two are similar (same category and
\* style, half of the words shared), the third is similar to neither.
DescriptionPool ==
  { Description("product", 10, << <<"clean">>, <<"product">>, <<"shot">> >>),
    Description("product", 8, << <<"clean">>, <<"product">>, <<"photo">> >>),
    Description("food", 9, << <<"gourmet">>, <<"dish">> >>) }

\* lists of n distinct occurrences
OccurrenceLists(n) ==
  { s \in [1..n -> OccurrencePool] : \A i, j \in 1..n : i /= j => s[i] /= s[j] }

-----------------------------------------------------------------------------
(* Documents *)

PicsumWH(w, h) == <<"https://picsum.photos", "/", w, "/", h>>
PicsumSquare(w) == <<"https://picsum.photos", "/", w>>
PicsumSeed(seed, w, h) == <<"https://picsum.photos", "/", "seed", "/", seed, "/", w, "/", h>>
PicsumList == <<"https://picsum.photos", "/", "v2", "/", "list">>

Name(chars) == KV(<<"name">>, Str(chars))

\* {"img": "https://picsum.photos/800/600"}
DocSingle == Obj(<<KV(<<"img">>, Str(PicsumWH("800", "600")))>>)

\* {"thumb": "https://picsum.photos/200/200", "banner": "https://picsum.photos/200/200"}
DocThumbBanner ==
  Obj(<<KV(<<"thumb">>, Str(PicsumWH("200", "200"))),
        KV(<<"banner">>, Str(PicsumWH("200", "200")))>>)

\* [{"name": "xy", "hero": ".../100/500"},
\*  {"name": "abcde", "image": ".../seed/milano/800/600"},
\*  {"name": "abcdf", "image": ".../seed/milano/400/300?blur"},
\*  {"name": "xyz", "logo": ".../400/300"}]
DocItems ==
  Arr(<<Obj(<<Name(<<"x", "y">>), KV(<<"hero">>, Str(PicsumWH("100", "500")))>>),
        Obj(<<Name(Chars("a", "b", "c", "d", "e")),
              KV(<<"image">>, Str(PicsumSeed("milano", "800", "600")))>>),
        Obj(<<Name(Chars("a", "b", "c", "d", "f")),
              KV(<<"image">>, Str(PicsumSeed("milano", "400", "300") \o <<"?", "blur">>))>>),
        Obj(<<Name(<<"x", "y", "z">>), KV(<<"logo">>, Str(PicsumWH("400", "300")))>>)>>)

\* {"items": [{"name": "abcde", "image": ".../800/600"},
\*            {"name": "abcde", "image": ".../100/500"}]}
DocOdd ==
  Obj(<<KV(<<"items">>,
     Arr(<<Obj(<<Name(Chars("a", "b", "c", "d", "e")),
                 KV(<<"image">>, Str(PicsumWH("800", "600")))>>),
           Obj(<<Name(Chars("a", "b", "c", "d", "e")),
                 KV(<<"image">>, Str(PicsumWH("100", "500")))>>)>>))>>)

\* {"avatar": ".../200", "logo": ".../400/300", "hero": ".../800/600"}
DocThree ==
  Obj(<<KV(<<"avatar">>, Str(PicsumSquare("200"))),
        KV(<<"logo">>, Str(PicsumWH("400", "300"))),
        KV(<<"hero">>, Str(PicsumWH("800", "600")))>>)

\* {"list": "https://picsum.photos/v2/list", "img": "https://picsum.photos/400"}
DocList ==
  Obj(<<KV(<<"list">>, Str(PicsumList)), KV(<<"img">>, Str(PicsumSquare("400")))>>)

\* {"a.b": ".../200/200", "a": {"b": ".../800/600"}}
DocDotted ==
  Obj(<<KV(<<"a", ".", "b">>, Str(PicsumWH("200", "200"))),
        KV(<<"a">>, Obj(<<KV(<<"b">>, Str(PicsumWH("800", "600")))>>))>>)

\* {"name": "abcde", "url": "https://example.com/x.png", "count": 3, "none": null}
DocNone ==
  Obj(<<Name(Chars("a", "b", "c", "d", "e")),
        KV(<<"url">>, Str(<<"https://example.com", "/", "x.png">>)),
        KV(<<"count">>, Num), KV(<<"none">>, Null)>>)

\* const o = {"img": ".../800/600"}; o.self = o
DocCyclic ==
  Obj(<<KV(<<"img">>, Str(PicsumWH("800", "600"))), KV(<<"self">>, Cyclic)>>)

\* {"gallery": ["https://picsum.photos/800/600", "https://picsum.photos/400/300"]}
DocGallery ==
  Obj(<<KV(<<"gallery">>,
           Arr(<<Str(PicsumWH("800", "600")), Str(PicsumWH("400", "300"))>>))>>)

\* {"a.b": "https://picsum.photos/400/300"}
DocDottedKey == Obj(<<KV(<<"a", ".", "b">>, Str(PicsumWH("400", "300")))>>)

Documents ==
  {DocSingle, DocThumbBanner, DocItems, DocOdd, DocThree, DocList, DocDotted, DocNone,
   DocCyclic, DocGallery}

\* the traversal of the document never ends: RangeError, Maximum call stack size exceeded
RECURSIVE Overflows(_)
Overflows(obj) ==
  \/ obj.t = "cyclic"
  \/ /\ obj.t = "arr"
     /\ \E i \in DOMAIN obj.kids : Overflows(obj.kids[i].v)
  \/ /\ obj.t = "obj"
     /\ \E i \in DOMAIN obj.kids :
          LET value == obj.kids[i].v
          IN ~(value.t = "str" /\ ExtractorIsPicsumUrl(value.s)) /\ TypeofObject(value)
             /\ Overflows(value)

-----------------------------------------------------------------------------
(* PostProcessingOrchestrator *)

\* UrlReplacer.normalizeOptions: the defaults, and each default changed in turn
ReplacementOptionSpace ==
  { o \in [preferCdnUrls : BOOLEAN, preserveOriginalOnFailure : BOOLEAN,
           backupOriginal : BOOLEAN] :
      Cardinality({ f \in {"cdn", "preserve", "backup"} :
                      \/ f = "cdn" /\ ~o.preferCdnUrls
                      \/ f = "preserve" /\ o.preserveOriginalOnFailure
                      \/ f = "backup" /\ ~o.backupOriginal }) <= 1 }

\* PostProcessingOrchestrator.normalizeOptions: the configurations of a run.
\* cloud is the storage ImageMockGenerator found configured in .env, which is
\* looked at only when uploadToCloud is set
OptionSpace ==
  { o \in [enableImageReplacement : BOOLEAN,
           enableOptimization : BOOLEAN,
           maxConcurrentGenerations : 0..MaxConcurrent,
           uploadToCloud : BOOLEAN,
           cloud : {"none", "aws", "digitalocean"},
           replacementOptions : ReplacementOptionSpace] :
      /\ ~o.uploadToCloud => o.cloud = "none"
      /\ ~o.enableImageReplacement =>
           /\ o.enableOptimization /\ o.uploadToCloud /\ o.cloud = "digitalocean"
           /\ o.maxConcurrentGenerations = MaxConcurrent }

NoOptions ==
  [enableImageReplacement |-> TRUE, enableOptimization |-> TRUE,
   maxConcurrentGenerations |-> 3, uploadToCloud |-> TRUE, cloud |-> "digitalocean",
   replacementOptions |-> [preferCdnUrls |-> TRUE, preserveOriginalOnFailure |-> FALSE,
                           backupOriginal |-> TRUE]]

NoOptimization ==
  [groups |-> <<>>, totalImages |-> 0, generatedImages |-> 0, resizedImages |-> 0,
   croppedImages |-> 0, reusedImages |-> 0, savingsNum |-> 0, savingsDen |-> 1]

\* the result object processData starts from, lines 81-94 (extraction.images is the
\* variable images, optimization the variable optimization)
InitialResult(d) ==
  [success |-> FALSE, originalImageCount |-> 0, processedImageCount |-> 0,
   generatedImageCount |-> 0, savingsNum |-> 0, savingsDen |-> 1,
   extraction |-> [totalFound |-> 0, uniqueUrls |-> 0],
   replacement |-> [success |-> FALSE, replacedCount |-> 0, failedCount |-> 0,
                    mappings |-> <<>>, modifiedData |-> d, errors |-> <<>>],
   processedData |-> d, errors |-> <<>>, warnings |-> <<>>]

\* PostProcessingOrchestrator.startPhase
startPhase(st, phase) ==
  Append(st, [phase |-> phase, ended |-> FALSE, itemsProcessed |-> 0, errors |-> 0])

\* PostProcessingOrchestrator.endPhase, on the record startPhase pushed last
endPhase(st, itemsProcessed, errors) ==
  [st EXCEPT ![Len(st)] = [@ EXCEPT !.ended = TRUE, !.itemsProcessed = itemsProcessed,
                                    !.errors = errors]]

\* a catch block that records nothing
CatchErrorSilently(res, message) == [res EXCEPT !.success = FALSE]

\* the catch block of processData, lines 138-142
CatchError(res, message) ==
  [res EXCEPT !.errors = Append(@, <<"Post-processing failed: ">> \o message),
              !.success = FALSE]

\* PostProcessingOrchestrator.createBasicPlan
createBasicPlan(imgs, descs) ==
  [groups |-> [ i \in DOMAIN imgs |->
                  [masterImageId |-> imgs[i].path,
                   description |-> descs[imgs[i].path],
                   targetDimensions |-> imgs[i].dimensions,
                   variants |-> <<MasterPlan(imgs[i], descs[imgs[i].path])>>,
                   totalCost |-> 10] ],
   totalImages |-> Len(imgs), generatedImages |-> Len(imgs), resizedImages |-> 0,
   croppedImages |-> 0, reusedImages |-> 0, savingsNum |-> 0, savingsDen |-> 1]

\* batches cut one element too long: items.slice(i, i + batchSize + 1)
RECURSIVE createBatchesOversized(_, _, _)
createBatchesOversized(first, n, batchSize) ==
  IF first > n THEN <<>>
  ELSE <<[ k \in 1..(Min2(first + batchSize, n) - first + 1) |-> first + k - 1 ]>>
       \o createBatchesOversized(first + batchSize + 1, n, batchSize)

\* PostProcessingOrchestrator.createBatches, on the indices first..n of the sorted groups
RECURSIVE createBatches(_, _, _)
createBatches(first, n, batchSize) ==
  IF first > n THEN <<>>
  ELSE <<[ k \in 1..(Min2(first + batchSize - 1, n) - first + 1) |-> first + k - 1 ]>>
       \o createBatches(first + batchSize, n, batchSize)

\* this.options.maxConcurrentGenerations || 3
ConcurrencyLimit(opts) ==
  IF opts.maxConcurrentGenerations /= 0 THEN opts.maxConcurrentGenerations ELSE 3

\* group.variants.find(v => v.processingType === 'generate'): its index, 0 if none
FindMasterPlan(group) ==
  IF \E v \in DOMAIN group.variants : group.variants[v].processingType = "generate"
  THEN CHOOSE v \in DOMAIN group.variants :
         /\ group.variants[v].processingType = "generate"
         /\ \A u \in DOMAIN group.variants :
              group.variants[u].processingType = "generate" => v <= u
  ELSE 0

\* the URLs a generation and an upload return for a group
DataUrl(group) == <<"data:image/png;base64,">> \o group.masterImageId
StorageUrl(cloud, group) ==
  (IF cloud = "aws" THEN <<"https://bucket.s3.region.amazonaws.com">>
   ELSE <<"https://space.region.digitaloceanspaces.com">>)
  \o <<"/", "generated-images", "/">> \o group.masterImageId \o <<".png">>
CdnUrl(cloud, group) ==
  IF cloud = "digitalocean"
  THEN <<"https://space.region.cdn.digitaloceanspaces.com", "/", "generated-images", "/">>
       \o group.masterImageId \o <<".png">>
  ELSE EmptyStr

\* processGroup, lines 410-432: one successful entry per variant, all with the
\* master's URL
GroupSucceeded(group, imageUrl, cdnUrl) ==
  [ v \in DOMAIN group.variants |->
      [originalUrl |-> group.variants[v].imageId, newUrl |-> imageUrl,
       cdnUrl |-> cdnUrl, path |-> group.variants[v].imageId, success |-> TRUE,
       error |-> EmptyStr] ]

\* a catch block that records the failure for the first variant only
GroupFailedFirstVariant(group, errorMsg) ==
  <<[originalUrl |-> group.variants[1].imageId, newUrl |-> EmptyStr,
     cdnUrl |-> EmptyStr, path |-> group.variants[1].imageId, success |-> FALSE,
     error |-> errorMsg]>>

\* processGroup, lines 434-447: one failed entry per variant
GroupFailed(group, errorMsg) ==
  [ v \in DOMAIN group.variants |->
      [originalUrl |-> group.variants[v].imageId, newUrl |-> EmptyStr,
       cdnUrl |-> EmptyStr, path |-> group.variants[v].imageId, success |-> FALSE,
       error |-> errorMsg] ]

\* generateImages, lines 300-311: the entries pushed for a rejected promise
GroupRejected(group, reason) ==
  [ v \in DOMAIN group.variants |->
      [originalUrl |-> EmptyStr, newUrl |-> EmptyStr, cdnUrl |-> EmptyStr,
       path |-> group.variants[v].imageId, success |-> FALSE, error |-> reason] ]

Pending == [status |-> "pending", value |-> <<>>, reason |-> EmptyStr]
Fulfilled(value) == [status |-> "fulfilled", value |-> value, reason |-> EmptyStr]
Rejected(reason) == [status |-> "rejected", value |-> <<>>, reason |-> reason]

\* generateImages, lines 296-313: what one settled promise adds to results
SettledEntries(group, o) ==
  IF o.status = "fulfilled" THEN o.value ELSE GroupRejected(group, o.reason)

\* the groups of the current batch whose processGroup has not settled
InFlight == { g \in DOMAIN running : running[g] \in {"gen1", "gen2", "upload"} }

\* batch.map(group => this.processGroup(group)), line 293: every processGroup of
\* batch b runs up to its first await, the request of the master image
StartBatchFrom(run, out, calls, b, groups) ==
  LET batch == Range(batches'[b])
      hasMaster(g) == FindMasterPlan(groups[g]) /= 0
  IN /\ running' = [ g \in DOMAIN run |->
          IF g \in batch THEN (IF hasMaster(g) THEN "gen1" ELSE "settled") ELSE run[g] ]
     /\ outcome' = [ g \in DOMAIN out |->
          IF g \in batch /\ ~hasMaster(g)
          THEN Rejected(<<"Error: No master generation plan found for group ">>
                        \o groups[g].masterImageId)
          ELSE out[g] ]
     /\ providerCalls' = [ g \in DOMAIN calls |->
          IF g \in batch /\ hasMaster(g) THEN calls[g] + 1 ELSE calls[g] ]

\* the state of a run before generateImages has built its batches
NoGeneration ==
  /\ batches = <<>>
  /\ batchIndex = 0
  /\ running = <<>>
  /\ outcome = <<>>
  /\ results = <<>>
  /\ providerCalls = <<>>

\* new PostProcessingOrchestrator(imageGenerator, options), then processData(data)
\* up to its first statement
Init ==
  /\ pc = "start"
  /\ options \in OptionSpace
  /\ data \in Documents
  /\ data0 = data
  /\ images = <<>>
  /\ descriptions = <<>>
  /\ optimization = NoOptimization
  /\ NoGeneration
  /\ stats = <<>>
  /\ result = InitialResult(data)
  /\ caught = EmptyStr
  /\ visited = 0

\* processData, lines 97-102
ReplacementDisabled ==
  /\ pc = "start"
  /\ ~options.enableImageReplacement
  /\ result' = [result EXCEPT !.success = TRUE, !.processedData = data]
  /\ pc' = "done"
  /\ UNCHANGED <<options, data, data0, images, descriptions, optimization, batches,
                 batchIndex, running, outcome, results, providerCalls, stats, caught, visited>>

\* a processData without the early return of line 110
ExtractedWithoutReturn(extraction) ==
  /\ stats' = endPhase(startPhase(stats, "Image URL Extraction"), extraction.totalFound, 0)
  /\ images' = extraction.images
  /\ result' = [result EXCEPT
       !.extraction = [totalFound |-> extraction.totalFound,
                       uniqueUrls |-> extraction.uniqueUrls]]
  /\ pc' = "describe"
  /\ UNCHANGED caught

\* processData, lines 107-113, once extractImageUrls has returned extraction
Extracted(extraction) ==
  /\ stats' = endPhase(startPhase(stats, "Image URL Extraction"), extraction.totalFound, 0)
  /\ images' = extraction.images
  /\ IF extraction.totalFound = 0
     THEN /\ result' = [result EXCEPT
               !.extraction = [totalFound |-> 0, uniqueUrls |-> extraction.uniqueUrls],
               !.success = TRUE, !.processedData = data]
          /\ pc' = "done"
     ELSE /\ result' = [result EXCEPT
               !.extraction = [totalFound |-> extraction.totalFound,
                               uniqueUrls |-> extraction.uniqueUrls]]
          /\ pc' = "describe"
  /\ UNCHANGED caught

\* processData, lines 138-142, once extractImageUrls has thrown
ExtractionFailed(message) ==
  /\ stats' = endPhase(startPhase(stats, "Image URL Extraction"), 0, 1)
  /\ caught' = message
  /\ result' = CatchError(result, message)
  /\ pc' = "done"
  /\ UNCHANGED images

\* processData, lines 107-113 and, when the extraction throws, lines 138-142
ExtractImageUrls ==
  /\ pc = "start"
  /\ options.enableImageReplacement
  /\ IF Overflows(data)
     THEN ExtractionFailed(<<"Maximum call stack size exceeded">>)
     ELSE Extracted(extractPicsumUrls(data))
  /\ UNCHANGED <<options, data, data0, descriptions, optimization, batches, batchIndex,
                 running, outcome, results, providerCalls, visited>>

\* processData, line 116
GenerateDescriptions ==
  /\ pc = "describe"
  /\ descriptions' = generateDescriptions(images, DescriptionDefaults)
  /\ stats' = endPhase(startPhase(stats, "Description Generation"),
                       Cardinality(DOMAIN descriptions'), 0)
  /\ pc' = "optimize"
  /\ UNCHANGED <<options, data, data0, images, optimization, batches, batchIndex,
                 running, outcome, results, providerCalls, result,
                 caught, visited>>

\* processData, line 119
OptimizeProcessing ==
  /\ pc = "optimize"
  /\ IF ~options.enableOptimization
     THEN /\ optimization' = createBasicPlan(images, descriptions)
          /\ stats' = startPhase(stats, "Processing Optimization")
     ELSE /\ optimization' = createProcessingPlan(images, descriptions)
          /\ stats' = endPhase(startPhase(stats, "Processing Optimization"),
                               optimization'.totalImages, 0)
  /\ pc' = "generate"
  /\ UNCHANGED <<options, data, data0, images, descriptions, batches, batchIndex,
                 running, outcome, results, providerCalls, result,
                 caught, visited>>

\* generateImages, lines 268-294: sorts the groups of the plan in place, cuts them
\* into batches and starts the first batch
GenerateImages ==
  /\ pc = "generate"
  /\ LET sortedGroups == sortGroupsByPriority(optimization.groups)
         n == Len(sortedGroups)
     IN /\ optimization' = [optimization EXCEPT !.groups = sortedGroups]
        /\ batches' = createBatches(1, n, ConcurrencyLimit(options))
        /\ IF batches' = <<>>
           THEN /\ stats' = endPhase(startPhase(stats, "Image Generation"), 0, 0)
                /\ batchIndex' = 0
                /\ pc' = "replace"
                /\ UNCHANGED <<running, outcome, providerCalls>>
           ELSE /\ stats' = startPhase(stats, "Image Generation")
                /\ batchIndex' = 1
                /\ pc' = "batch"
                /\ running = <<>> /\ outcome = <<>> /\ providerCalls = <<>>
                /\ LET idle == [ g \in 1..n |-> "idle" ]
                       none == [ g \in 1..n |-> Pending ]
                       zero == [ g \in 1..n |-> 0 ]
                   IN StartBatchFrom(idle, none, zero, 1, sortedGroups)
  /\ UNCHANGED <<options, data, data0, images, descriptions, results, result, caught, visited>>

\* ImageGenerator.generateImage answers a request of group g: the first request of
\* generateImageMock (line 99) or the one generateImageFromBase64 makes (line 116)
ProviderResponds(g, ok) ==
  /\ pc = "batch"
  /\ running[g] \in {"gen1", "gen2"}
  /\ LET group == optimization.groups[g]
         upload == running[g] = "gen2" /\ options.cloud /= "none"
         again == running[g] = "gen1" /\ options.uploadToCloud
     IN IF ~ok
        THEN /\ running' = [running EXCEPT ![g] = "settled"]
             /\ outcome' = [outcome EXCEPT ![g] =
                  Fulfilled(GroupFailed(group, <<"Hugging Face API error: 500">>))]
             /\ UNCHANGED providerCalls
        ELSE IF again
        THEN /\ running' = [running EXCEPT ![g] = "gen2"]
             /\ providerCalls' = [providerCalls EXCEPT ![g] = @ + 1]
             /\ UNCHANGED outcome
        ELSE IF upload
        THEN /\ running' = [running EXCEPT ![g] = "upload"]
             /\ UNCHANGED <<outcome, providerCalls>>
        ELSE /\ running' = [running EXCEPT ![g] = "settled"]
             /\ outcome' = [outcome EXCEPT ![g] =
                  Fulfilled(GroupSucceeded(group, DataUrl(group), EmptyStr))]
             /\ UNCHANGED providerCalls
  /\ UNCHANGED <<pc, options, data, data0, images, descriptions, optimization, batches,
                 batchIndex, results, stats, result, caught, visited>>

\* s3Storage.uploadImage or doStorage.uploadImage answers for group g
UploadResponds(g, ok) ==
  /\ pc = "batch"
  /\ running[g] = "upload"
  /\ LET group == optimization.groups[g]
     IN /\ running' = [running EXCEPT ![g] = "settled"]
        /\ outcome' = [outcome EXCEPT ![g] =
             IF ok
             THEN Fulfilled(GroupSucceeded(group, StorageUrl(options.cloud, group),
                                           CdnUrl(options.cloud, group)))
             ELSE Fulfilled(GroupFailed(group,
                    IF options.cloud = "aws" THEN <<"S3 upload failed: 403">>
                    ELSE <<"Space upload failed: 403">>))]
  /\ UNCHANGED <<pc, options, data, data0, images, descriptions, optimization, batches,
                 batchIndex, results, providerCalls, stats, result, caught, visited>>

\* Promise.race in place of Promise.allSettled: one settled promise is enough
AnySettled(b) == \E g \in Range(batches[b]) : running[g] = "settled"

\* await Promise.allSettled(batchPromises), line 294: every promise of batch b has
\* settled
AllSettled(b) == \A g \in Range(batches[b]) : running[g] = "settled"

\* generateImages, lines 294-318 and 321-325: Promise.allSettled of the batch
\* resolves, its results are pushed in the order of the batch
BatchSettled ==
  /\ pc = "batch"
  /\ AllSettled(batchIndex)
  /\ results' = results \o FlattenSeq([ k \in DOMAIN batches[batchIndex] |->
        LET g == batches[batchIndex][k]
        IN SettledEntries(optimization.groups[g], outcome[g]) ])
  /\ IF batchIndex < Len(batches)
     THEN /\ pc' = "delay"
          /\ UNCHANGED stats
     ELSE LET successCount == Len(SelectSeq(results', LAMBDA r : r.success))
          IN /\ stats' = endPhase(stats, successCount, Len(results') - successCount)
             /\ pc' = "replace"
  /\ UNCHANGED <<options, data, data0, images, descriptions, optimization, batches,
                 batchIndex, running, outcome, providerCalls,
                 result, caught, visited>>

\* generateImages, lines 289-293 after the pause of line 317: the next batch starts
NextBatch ==
  /\ pc = "delay"
  /\ batchIndex' = batchIndex + 1
  /\ batches' = batches
  /\ StartBatchFrom(running, outcome, providerCalls, batchIndex', optimization.groups)
  /\ pc' = "batch"
  /\ UNCHANGED <<options, data, data0, images, descriptions, optimization, results,
                 stats, result, caught, visited>>

\* processData, lines 128-133: the final statistics
FinalResult(res, replacement, generatedImages, opt) ==
  [res EXCEPT
     !.replacement = replacement,
     !.originalImageCount = res.extraction.totalFound,
     !.processedImageCount = replacement.replacedCount,
     !.generatedImageCount = Len(SelectSeq(generatedImages, LAMBDA r : r.success)),
     !.savingsNum = opt.savingsNum,
     !.savingsDen = opt.savingsDen,
     !.processedData = replacement.modifiedData,
     !.success = replacement.success /\ res.errors = <<>>]

\* PostProcessingOrchestrator.replaceUrls, given the mappings of the generated images
ReplaceUrlsWith(d, maps, replacementOptions) ==
  replaceUrls(d, maps.urlMappings, maps.cdnMappings, replacementOptions)

\* processData, lines 125-133: the replacement stage and the final statistics
ReplaceUrls ==
  /\ pc = "replace"
  /\ result' = FinalResult(result,
                 ReplaceUrlsWith(data, createUrlMappings(results),
                                 options.replacementOptions),
                 results, optimization)
  /\ stats' = endPhase(startPhase(stats, "URL Replacement"),
                       result'.replacement.replacedCount,
                       result'.replacement.failedCount)
  /\ data' = (IF NormalizeReplacementOptions(options.replacementOptions).backupOriginal
              THEN data ELSE result'.replacement.modifiedData)
  /\ pc' = "done"
  /\ UNCHANGED <<options, data0, images, descriptions, optimization, batches,
                 batchIndex, running, outcome, results, providerCalls, caught, visited>>

Next ==
  \/ ReplacementDisabled
  \/ ExtractImageUrls
  \/ GenerateDescriptions
  \/ OptimizeProcessing
  \/ GenerateImages
  \/ \E g \in DOMAIN running, ok \in BOOLEAN : ProviderResponds(g, ok)
  \/ \E g \in DOMAIN running, ok \in BOOLEAN : UploadResponds(g, ok)
  \/ BatchSettled
  \/ NextBatch
  \/ ReplaceUrls

Spec == Init /\ [][Next]_vars

-----------------------------------------------------------------------------
(* The analyzer on its own: createProcessingPlan applied to an input list *)

InitPlan ==
  /\ pc = "plan"
  /\ \E n \in 0..MaxImages : images \in OccurrenceLists(n)
  /\ descriptions \in [PathsOf(images) -> DescriptionPool]
  /\ optimization = NoOptimization
  /\ options = NoOptions
  /\ data = Null
  /\ data0 = Null
  /\ NoGeneration
  /\ stats = <<>>
  /\ result = InitialResult(Null)
  /\ caught = EmptyStr
  /\ visited = 0

CreateProcessingPlan ==
  /\ pc = "plan"
  /\ optimization' = createProcessingPlan(images, descriptions)
  /\ pc' = "planned"
  /\ UNCHANGED <<options, data, data0, images, descriptions, batches, batchIndex,
                 running, outcome, results, providerCalls,
                 stats, result, caught, visited>>

NextPlan == CreateProcessingPlan

SpecPlan == InitPlan /\ [][NextPlan]_vars

-----------------------------------------------------------------------------
(* The replacer on its own: UrlReplacer.replaceUrls applied to a document with *)
(* the mappings UrlReplacer.createUrlMappings builds from a list of image      *)
(* results. performReplacements is followed call by call: each step is one     *)
(* activation of replaceUrl.                                                   *)

MaxMappings == 2

Generated(name) == <<"https://cdn.example", "/", name>>

ImageResult(originalUrl, newUrl, cdnUrl, success) ==
  [originalUrl |-> originalUrl, newUrl |-> newUrl, cdnUrl |-> cdnUrl,
   path |-> <<"p">>, success |-> success,
   error |-> IF success THEN EmptyStr ELSE <<"Hugging Face API error: 500">>]

\* image results whose originalUrl is the URL of the image: a seeded URL, two URLs
\* with dimensions only (one of them with a CDN URL), and a failed generation
ImageResultPool ==
  {ImageResult(PicsumSeed("milano", "800", "600"), Generated("milano.png"), EmptyStr, TRUE),
   ImageResult(PicsumWH("400", "300"), Generated("logo.png"),
               <<"https://cdn2.example", "/", "logo.png">>, TRUE),
   ImageResult(PicsumWH("800", "600"), Generated("hero.png"), EmptyStr, TRUE),
   ImageResult(PicsumSquare("200"), EmptyStr, EmptyStr, FALSE)}

\* lists of at most MaxMappings distinct image results, in every order
ImageResultLists ==
  UNION { { l \in [1..n -> ImageResultPool] : \A i, j \in 1..n : l[i] = l[j] => i = j } :
          n \in 0..MaxMappings }

ReplacerDocuments == (Documents \ {DocCyclic}) \cup {DocDottedKey}

\* the calls of replaceUrl that performReplacements makes on a document, in the order
\* it makes them: loc is the chain of entry indices that leads to the property
RECURSIVE ReplaceCalls(_, _, _, _)
ReplaceCalls(obj, loc, currentPath, itemIndex) ==
  IF obj.t = "arr"
  THEN FlattenSeq([ i \in DOMAIN obj.kids |->
         ReplaceCalls(obj.kids[i].v, Append(loc, i), ArrayPath(currentPath, i - 1),
                      i - 1) ])
  ELSE IF obj.t = "obj"
  THEN FlattenSeq([ i \in DOMAIN obj.kids |->
         IF obj.kids[i].v.t = "str" /\ ReplacerIsPicsumUrl(obj.kids[i].v.s)
         THEN <<[loc |-> Append(loc, i), key |-> obj.kids[i].k,
                 url |-> obj.kids[i].v.s,
                 path |-> KeyPath(currentPath, obj.kids[i].k),
                 itemIndex |-> itemIndex]>>
         ELSE IF obj.kids[i].v.t \in {"obj", "arr"}
         THEN ReplaceCalls(obj.kids[i].v, Append(loc, i),
                           KeyPath(currentPath, obj.kids[i].k), itemIndex)
         ELSE <<>> ])
  ELSE <<>>

\* the assignment made to the document itself in place of its property
SetWhole(obj, loc, node) == node

\* no assignment at all: the property keeps its value
SetNothing(obj, loc, node) == obj

\* obj[key] = finalUrl (line 799) on the object the chain loc leads to
RECURSIVE SetAt(_, _, _)
SetAt(obj, loc, node) ==
  IF loc = <<>> THEN node
  ELSE [obj EXCEPT !.kids[loc[1]].v = SetAt(obj.kids[loc[1]].v, Tail(loc), node)]

\* the ReplacementResult after the call c of replaceUrl has returned r
AfterCall(rep, c, r) ==
  [success |-> rep.success, replacedCount |-> r.res.replacedCount,
   failedCount |-> r.res.failedCount, mappings |-> r.res.mappings,
   modifiedData |-> SetAt(rep.modifiedData, c.loc, r.node), errors |-> r.res.errors]

\* one call of replaceUrl, on the result object of replaceUrls
CallReplaceUrl(rep, c, maps, opts) ==
  AfterCall(rep, c,
    replaceUrl(c.key, c.url, c.path, maps.urlMappings, maps.cdnMappings,
               [success |-> rep.success, replacedCount |-> rep.replacedCount,
                failedCount |-> rep.failedCount, mappings |-> rep.mappings,
                errors |-> rep.errors],
               opts, c.itemIndex))

\* path.split(/[\.\[\]]/).filter(Boolean), from token i on, part being the tokens
\* read since the last separator
RECURSIVE SplitPath(_, _, _)
SplitPath(path, i, part) ==
  IF i > Len(path) THEN (IF part = <<>> THEN <<>> ELSE <<part>>)
  ELSE IF path[i] \in {".", "[", "]"}
  THEN (IF part = <<>> THEN <<>> ELSE <<part>>) \o SplitPath(path, i + 1, <<>>)
  ELSE SplitPath(path, i + 1, Append(part, path[i]))

\* /^\d+$/.test(part)
IsArrayIndex(part) == Len(part) = 1 /\ IsDigits(part[1])

\* current[part], or current[parseInt(part)]: the position of the property among
\* the properties of current, 0 when it is undefined
PropertyIndex(current, part) ==
  IF current.t = "arr"
  THEN (IF IsArrayIndex(part) /\ parseInt(part[1]) + 1 \in DOMAIN current.kids
        THEN parseInt(part[1]) + 1 ELSE 0)
  ELSE IF \E i \in DOMAIN current.kids : current.kids[i].k = part
  THEN CHOOSE i \in DOMAIN current.kids : current.kids[i].k = part
  ELSE 0

\* setValueAtPath throws: a property is read or set on undefined, on null or (the
\* code of a class being strict) set on a primitive; obj is left as it was
SetValueThrows(obj) == [ok |-> FALSE, node |-> obj]

\* UrlReplacer.setValueAtPath on the parts of the path: [ok, node], node being obj
\* after the assignment.  A property that does not exist yet is added.
RECURSIVE SetValueAtParts(_, _, _)
SetValueAtParts(obj, parts, value) ==
  IF obj.t \notin {"obj", "arr"} THEN SetValueThrows(obj)
  ELSE IF parts = <<>>
  THEN [ok |-> TRUE, node |-> [obj EXCEPT !.kids = Append(@, KV(<<"undefined">>, value))]]
  ELSE IF PropertyIndex(obj, parts[1]) = 0
  THEN (IF Len(parts) = 1
        THEN [ok |-> TRUE, node |-> [obj EXCEPT !.kids = Append(@, KV(parts[1], value))]]
        ELSE SetValueThrows(obj))
  ELSE IF Len(parts) = 1
  THEN [ok |-> TRUE, node |-> [obj EXCEPT !.kids[PropertyIndex(obj, parts[1])].v = value]]
  ELSE [ok |-> SetValueAtParts(obj.kids[PropertyIndex(obj, parts[1])].v,
                               Tail(parts), value).ok,
        node |-> [obj EXCEPT !.kids[PropertyIndex(obj, parts[1])].v =
                    SetValueAtParts(@, Tail(parts), value).node]]

\* UrlReplacer.setValueAtPath
setValueAtPath(obj, path, value) == SetValueAtParts(obj, SplitPath(path, 1, <<>>), value)

\* the forEach of rollbackReplacements from mapping i on: [ok, node]
RECURSIVE RollbackFrom(_, _, _)
RollbackFrom(modifiedData, mappings, i) ==
  IF i > Len(mappings) THEN [ok |-> TRUE, node |-> modifiedData]
  ELSE IF ~setValueAtPath(modifiedData, mappings[i].path, Str(mappings[i].originalUrl)).ok
  THEN SetValueThrows(modifiedData)
  ELSE RollbackFrom(
         setValueAtPath(modifiedData, mappings[i].path, Str(mappings[i].originalUrl)).node,
         mappings, i + 1)

\* UrlReplacer.rollbackReplacements(originalData, result)
rollbackReplacements(replacement) ==
  RollbackFrom(replacement.modifiedData, replacement.mappings, 1)

\* a caller holds a document, a list of image results and replacement options
InitReplace ==
  /\ pc = "call"
  /\ data \in ReplacerDocuments
  /\ data0 = data
  /\ results \in ImageResultLists
  /\ \E o \in [preferCdnUrls : BOOLEAN, preserveOriginalOnFailure : BOOLEAN,
               backupOriginal : BOOLEAN] :
       options = [NoOptions EXCEPT !.replacementOptions = o]
  /\ images = <<>>
  /\ descriptions = <<>>
  /\ optimization = NoOptimization
  /\ batches = <<>>
  /\ batchIndex = 0
  /\ running = <<>>
  /\ outcome = <<>>
  /\ providerCalls = <<>>
  /\ stats = <<>>
  /\ result = InitialResult(data)
  /\ caught = EmptyStr
  /\ visited = 0

\* replaceUrls, lines 621-629: the result object, with the document to work on
EnterReplaceUrls ==
  /\ pc = "call"
  /\ result' = [result EXCEPT !.replacement =
       [success |-> FALSE, replacedCount |-> 0, failedCount |-> 0, mappings |-> <<>>,
        modifiedData |->
          IF NormalizeReplacementOptions(options.replacementOptions).backupOriginal
          THEN deepClone(data) ELSE data,
        errors |-> <<>>]]
  /\ visited' = 0
  /\ pc' = "replacing"
  /\ UNCHANGED <<options, data, data0, images, descriptions, optimization, batches,
                 batchIndex, running, outcome, results, providerCalls, stats, caught>>

\* performReplacements reaches its next picsum string and calls replaceUrl on it;
\* without a backup the document worked on is the caller's
ReplaceOne ==
  /\ pc = "replacing"
  /\ visited < Len(ReplaceCalls(data0, <<>>, <<>>, 0))
  /\ result' = [result EXCEPT !.replacement =
       CallReplaceUrl(@, ReplaceCalls(data0, <<>>, <<>>, 0)[visited + 1],
                      createUrlMappings(results),
                      NormalizeReplacementOptions(options.replacementOptions))]
  /\ data' = (IF NormalizeReplacementOptions(options.replacementOptions).backupOriginal
              THEN data ELSE result'.replacement.modifiedData)
  /\ visited' = visited + 1
  /\ UNCHANGED <<pc, options, data0, images, descriptions, optimization, batches,
                 batchIndex, running, outcome, results, providerCalls, stats, caught>>

\* replaceUrls, lines 647-663: performReplacements has returned, success is set
LeaveReplaceUrls ==
  /\ pc = "replacing"
  /\ visited = Len(ReplaceCalls(data0, <<>>, <<>>, 0))
  /\ result' = [result EXCEPT !.replacement.success =
       result.replacement.failedCount = 0 \/ result.replacement.replacedCount > 0]
  /\ pc' = "replaced"
  /\ UNCHANGED <<options, data, data0, images, descriptions, optimization, batches,
                 batchIndex, running, outcome, results, providerCalls, stats, caught,
                 visited>>

\* the caller rolls the replacement back: UrlReplacer.rollbackReplacements on the
\* result of replaceUrls; without a backup the document restored is the caller's
RollbackReplacements ==
  /\ pc = "replaced"
  /\ result' = [result EXCEPT !.replacement.modifiedData =
                  rollbackReplacements(result.replacement).node]
  /\ caught' = (IF rollbackReplacements(result.replacement).ok THEN EmptyStr
                ELSE <<"TypeError: Cannot set properties of undefined">>)
  /\ data' = (IF NormalizeReplacementOptions(options.replacementOptions).backupOriginal
              THEN data ELSE rollbackReplacements(result.replacement).node)
  /\ pc' = "rolledback"
  /\ UNCHANGED <<options, data0, images, descriptions, optimization, batches,
                 batchIndex, running, outcome, results, providerCalls, stats, visited>>

NextReplace ==
  \/ EnterReplaceUrls
  \/ ReplaceOne
  \/ LeaveReplaceUrls
  \/ RollbackReplacements

SpecReplace == InitReplace /\ [][NextReplace]_vars

\* the calls followed one by one end in the result replaceUrls computes
ReplaceCallsAgree ==
  pc = "replaced" =>
    result.replacement
      = ReplaceUrlsWith(data0, createUrlMappings(results), options.replacementOptions)

-----------------------------------------------------------------------------
(* Properties *)

\* the imageIds of all variants of all groups, in order
PlanImageIds(opt) ==
  FlattenSeq([ g \in DOMAIN opt.groups |->
    [ v \in DOMAIN opt.groups[g].variants |-> opt.groups[g].variants[v].imageId ] ])

\* C1: the groups returned by createProcessingPlan partition the occurrence set: the
\* imageIds of the variants of all groups are exactly the occurrence paths, and no
\* imageId appears in two groups or twice in one group.
PartitionInvariant ==
  pc = "planned" =>
    LET ids == PlanImageIds(optimization)
    IN /\ Range(ids) = PathsOf(images)
       /\ Len(ids) = Cardinality(Range(ids))

\* a plan with several groups, one of them with several variants
PartitionWitness ==
  /\ pc = "planned"
  /\ Len(optimization.groups) >= 2
  /\ \E g \in DOMAIN optimization.groups : Len(optimization.groups[g].variants) >= 2

\* the masters of a group: processingType generate and no sourceImageId
MastersOf(group) ==
  { v \in DOMAIN group.variants :
      /\ group.variants[v].processingType = "generate"
      /\ group.variants[v].sourceImageId = EmptyStr }

\* C2: in every group produced by createProcessingPlan exactly one variant has
\* processingType generate and no sourceImageId.
MasterUniqueness ==
  pc = "planned" =>
    \A g \in DOMAIN optimization.groups : Cardinality(MastersOf(optimization.groups[g])) = 1

-----------------------------------------------------------------------------
(* Properties of a processData run *)

\* a phase of this name was started
Ran(phase) == \E i \in DOMAIN stats : stats[i].phase = phase

\* the strings found at a path of a document: the values of the string properties the
\* traversal of the document reaches under that path
RECURSIVE StringsAt(_, _, _)
StringsAt(obj, currentPath, path) ==
  IF obj.t = "arr"
  THEN UNION { StringsAt(obj.kids[i].v, ArrayPath(currentPath, i - 1), path) :
               i \in DOMAIN obj.kids }
  ELSE IF obj.t = "obj"
  THEN UNION { IF obj.kids[i].v.t = "str"
               THEN (IF KeyPath(currentPath, obj.kids[i].k) = path
                     THEN {obj.kids[i].v.s} ELSE {})
               ELSE StringsAt(obj.kids[i].v, KeyPath(currentPath, obj.kids[i].k), path) :
               i \in DOMAIN obj.kids }
  ELSE {}

\* C3: after UrlReplacer.replaceUrls has run on a document, replacedCount +
\* failedCount equals the number of occurrences (totalFound) that
\* ImageUrlExtractor.extractPicsumUrls finds in the same document.
ReplacementCoverage ==
  (pc = "done" /\ Ran("URL Replacement")) =>
    result.replacement.replacedCount + result.replacement.failedCount
      = extractPicsumUrls(data0).totalFound

\* the URL a successful result entry asks for at its path: the CDN URL when preferred
\* and present, else the URL returned for the master image
GeneratedUrl(r) ==
  IF options.replacementOptions.preferCdnUrls /\ r.cdnUrl /= EmptyStr THEN r.cdnUrl
  ELSE r.newUrl

\* C4: for every occurrence whose group's master generation succeeded, the string at
\* that occurrence's path in processedData is the URL returned for the group's
\* master image (or its CDN URL when preferred and present), not the placeholder.
GeneratedUrlInPlace ==
  (pc = "done" /\ Ran("URL Replacement")) =>
    \A i \in DOMAIN results :
      results[i].success =>
        StringsAt(result.processedData, <<>>, results[i].path) = {GeneratedUrl(results[i])}

\* the generation of group g failed: its promise rejected, or resolved to entries
\* that report the failure
GroupHasFailed(g) ==
  \/ outcome[g].status = "rejected"
  \/ \E k \in DOMAIN outcome[g].value : ~outcome[g].value[k].success

\* the number of result entries the groups before g account for, one per variant
EntriesBefore(g) ==
  SumSeq([ h \in 1..(g - 1) |-> Len(optimization.groups[h].variants) ])

\* C5: when the generation of a group fails, every variant of that group gets a
\* failed result entry carrying the error, every other group, in the same batch
\* and in later batches, is still processed to completion, and the generation stage
\* does not throw.
FailureIsolation ==
  pc = "replace" =>
    /\ caught = EmptyStr
    /\ Len(results) = EntriesBefore(Len(optimization.groups) + 1)
    /\ \A g \in DOMAIN optimization.groups :
         /\ running[g] = "settled" /\ providerCalls[g] >= 1
         /\ \A v \in DOMAIN optimization.groups[g].variants :
              LET r == results[EntriesBefore(g) + v]
              IN /\ r.path = optimization.groups[g].variants[v].imageId
                 /\ IF GroupHasFailed(g) THEN ~r.success /\ r.error /= EmptyStr
                    ELSE r.success

\* the batch a group was put in
BatchOf(g) == CHOOSE b \in DOMAIN batches : g \in Range(batches[b])

\* one group of the first batch failed, another of the same batch succeeded, and so
\* did a group of a later batch, in a group of several variants
FailureIsolationWitness ==
  /\ pc = "replace"
  /\ \E f, g, h \in DOMAIN optimization.groups :
       /\ GroupHasFailed(f) /\ ~GroupHasFailed(g) /\ ~GroupHasFailed(h)
       /\ BatchOf(f) = BatchOf(g) /\ f /= g /\ BatchOf(h) > BatchOf(f)
  /\ \E f \in DOMAIN optimization.groups :
       GroupHasFailed(f) /\ Len(optimization.groups[f].variants) >= 2

\* C6: for each group executed by the generation driver the generation provider is
\* invoked exactly once, whatever the variants of the group and whether or not
\* cloud upload is enabled.
ProviderOncePerGroup ==
  pc = "replace" => \A g \in DOMAIN providerCalls : providerCalls[g] = 1

\* C7 as stated: at every moment the number of groups whose processing has started
\* and not completed is at most the configured maxConcurrentGenerations.
ConcurrencyWithinConfigured ==
  Cardinality(InFlight) <= options.maxConcurrentGenerations

\* C7: at every moment of the generation stage the number of groups whose processing
\* has started and not completed is at most the configured maxConcurrentGenerations
\* when that is a positive integer, and at most 3 when it is configured as 0.
ConcurrencyWithinLimit ==
  Cardinality(InFlight) <= (IF options.maxConcurrentGenerations = 0 THEN 3
                            ELSE options.maxConcurrentGenerations)

\* configured as 2: two groups in flight while a third waits for the next batch
ConcurrencyWitness ==
  /\ options.maxConcurrentGenerations = 2
  /\ Cardinality(InFlight) = 2
  /\ \E g \in DOMAIN running : running[g] = "idle"

\* C8: no group of batch k+1 starts processing before every group of batch k has
\* completed, successfully or with failure.
BatchesSequential ==
  \A g, h \in DOMAIN running :
    (BatchOf(g) < BatchOf(h) /\ running[h] /= "idle") => running[g] = "settled"

\* a group of the second batch is in flight after the first batch completed, one of
\* its groups with a failure and one with success, its second group before its first
BatchesSequentialWitness ==
  /\ pc = "batch" /\ batchIndex = 2
  /\ \E h \in Range(batches[2]) : h \in InFlight
  /\ Len(batches[1]) >= 2
  /\ GroupHasFailed(batches[1][1]) /\ ~GroupHasFailed(batches[1][2])

\* C9: whenever group A is placed in an earlier batch than group B, the average
\* variant priority of A is greater than or equal to that of B.
BatchesInPriorityOrder ==
  pc \in {"batch", "delay", "replace"} =>
    \A a, b \in DOMAIN optimization.groups :
      BatchOf(a) < BatchOf(b) =>
        PrioritySum(optimization.groups[a]) * Len(optimization.groups[b].variants)
          >= PrioritySum(optimization.groups[b]) * Len(optimization.groups[a].variants)

\* two batches, the first with a group of strictly higher average priority that the
\* plan listed after the group of the second batch
PriorityOrderWitness ==
  /\ pc = "batch" /\ Len(batches) >= 2
  /\ LET a == optimization.groups[batches[1][1]]
         b == optimization.groups[batches[2][1]]
     IN /\ PrioritySum(a) * Len(b.variants) > PrioritySum(b) * Len(a.variants)
        /\ b.masterImageId = images[1].path

\* C10: processData never throws: when a stage raises an error that cannot be turned
\* into partial-failure data, the call returns a result with success = false, a
\* non-empty errors list and processedData equal to the original input document.
FatalErrorReturned ==
  (pc = "done" /\ caught /= EmptyStr) =>
    /\ ~result.success
    /\ result.errors /= <<>>
    /\ result.processedData = data0

\* the extraction stage threw on a document that refers to itself
FatalErrorWitness ==
  /\ pc = "done" /\ caught /= EmptyStr
  /\ Overflows(data0) /\ Ran("Image URL Extraction")

\* C11: when the generation provider fails for one group out of several, the final
\* result of processData counts that group's occurrences as failures: no mapping is
\* recorded at the path of a failed result entry (it is not counted in replacedCount
\* and processedImageCount), while the occurrences of the groups that succeeded are
\* counted as processed.
FailedGroupsCountedAsFailures ==
  (pc = "done" /\ Ran("URL Replacement")) =>
    /\ \A i \in DOMAIN results :
         ~results[i].success =>
           \A m \in DOMAIN result.replacement.mappings :
             result.replacement.mappings[m].path /= results[i].path
    /\ result.processedImageCount
         <= Len(SelectSeq(results, LAMBDA r : r.success))

RECURSIVE SameShape(_, _)
SameShape(a, b) ==
  IF a.t \in {"obj", "arr"}
  THEN /\ b.t = a.t
       /\ Len(b.kids) = Len(a.kids)
       /\ \A i \in DOMAIN a.kids :
            b.kids[i].k = a.kids[i].k /\ SameShape(a.kids[i].v, b.kids[i].v)
  ELSE IF a.t = "str" /\ ReplacerIsPicsumUrl(a.s) THEN b.t = "str"
  ELSE b = a

\* C13: the document returned by replaceUrls has the same shape as the input: the
\* same keys in every object, the same length of every array, and every leaf that is
\* not a placeholder-image URL string equal to the input's leaf at the same place.
ShapePreserved ==
  pc \in {"replacing", "replaced"} => SameShape(data0, result.replacement.modifiedData)

\* a list of objects with names beside their URLs, two of them rewritten
ShapePreservedWitness ==
  /\ pc = "replaced" /\ data0 = DocItems
  /\ result.replacement.replacedCount >= 2
  /\ \E i, j \in DOMAIN data0.kids :
       /\ i /= j
       /\ result.replacement.modifiedData.kids[i] /= data0.kids[i]
       /\ result.replacement.modifiedData.kids[j] /= data0.kids[j]

\* every string of a document that has a placeholder-image URL shape with dimensions,
\* with the path of its place: the value of a key or an element of an array
RECURSIVE PlaceholderStrings(_, _)
PlaceholderStrings(obj, currentPath) ==
  IF obj.t = "str"
  THEN IF ExtractorIsPicsumUrl(obj.s) /\ ExtractorExtractDimensions(obj.s).ok
       THEN {[path |-> currentPath, url |-> obj.s]} ELSE {}
  ELSE IF obj.t = "arr"
  THEN UNION { PlaceholderStrings(obj.kids[i].v, ArrayPath(currentPath, i - 1)) :
               i \in DOMAIN obj.kids }
  ELSE IF obj.t = "obj"
  THEN UNION { PlaceholderStrings(obj.kids[i].v, KeyPath(currentPath, obj.kids[i].k)) :
               i \in DOMAIN obj.kids }
  ELSE {}

\* C14: the extractor finds every string of the document that matches a
\* placeholder-image URL shape with dimensions, wherever it is: the value of an
\* object key at any depth or a direct element of an array; each yields an
\* occurrence with its path and URL.
ExtractorFindsEveryUrl ==
  (Ran("Image URL Extraction") /\ caught = EmptyStr) =>
    \A s \in PlaceholderStrings(data0, <<>>) :
      \E i \in DOMAIN images : images[i].path = s.path /\ images[i].url = s.url

\* C15: estimatedSavings returned by the analyzer is a number in [0, 100] for every
\* input, the empty occurrence list included (the quotient savingsNum / savingsDen
\* is defined and lies between 0 and 100), and it is 0 when every group has exactly
\* one occurrence.
SavingsWithinRange ==
  pc = "planned" =>
    /\ optimization.savingsDen > 0
    /\ 0 <= optimization.savingsNum
    /\ optimization.savingsNum <= 100 * optimization.savingsDen
    /\ (\A g \in DOMAIN optimization.groups : Len(optimization.groups[g].variants) = 1)
         => optimization.savingsNum = 0

\* the number of occurrences a list of occurrences has at a path
OccurrencesAt(imgs, path) == Cardinality({ i \in DOMAIN imgs : imgs[i].path = path })

\* the number of mappings at a path whose new URL has no placeholder shape
CleanMappingsAt(mappings, path) ==
  Cardinality({ m \in DOMAIN mappings :
                  mappings[m].path = path /\ ~ExtractorIsPicsumUrl(mappings[m].newUrl) })

\* C16: re-running the extraction on the document returned by a successful
\* replacement run yields no occurrence at any path whose URL was replaced by a URL
\* that is not placeholder-shaped. (Where several properties share one path, as the
\* key "a.b" and the key "b" under "a" do, as many occurrences fewer are found at the
\* path as URLs were so replaced there.)
ReExtractionFindsNoReplaced ==
  (pc = "replaced" /\ result.replacement.success) =>
    \A m \in DOMAIN result.replacement.mappings :
      ~ExtractorIsPicsumUrl(result.replacement.mappings[m].newUrl) =>
        OccurrencesAt(extractPicsumUrls(result.replacement.modifiedData).images,
                      result.replacement.mappings[m].path)
          <= OccurrencesAt(ReplaceCalls(data0, <<>>, <<>>, 0),
                           result.replacement.mappings[m].path)
             - CleanMappingsAt(result.replacement.mappings,
                               result.replacement.mappings[m].path)

\* a successful run that replaced one URL by a generated one and left another
\* placeholder URL of the document in place
ReExtractionWitness ==
  /\ pc = "replaced" /\ result.replacement.success
  /\ \E m \in DOMAIN result.replacement.mappings :
       /\ ~ExtractorIsPicsumUrl(result.replacement.mappings[m].newUrl)
       /\ OccurrencesAt(extractPicsumUrls(data0).images,
                        result.replacement.mappings[m].path) = 1
  /\ extractPicsumUrls(result.replacement.modifiedData).totalFound >= 1

\* C16 as first stated: the re-extraction yields no occurrence at all at a path where
\* a URL was replaced by a URL that is not placeholder-shaped.
ReExtractionPathsClean ==
  (pc = "replaced" /\ result.replacement.success) =>
    \A m \in DOMAIN result.replacement.mappings :
      ~ExtractorIsPicsumUrl(result.replacement.mappings[m].newUrl) =>
        OccurrencesAt(extractPicsumUrls(result.replacement.modifiedData).images,
                      result.replacement.mappings[m].path) = 0

\* the new URLs of the entries of a mapping table whose original URL has the seed of url
SeedSharing(urlMappings, url) ==
  { urlMappings[i].v : i \in { j \in DOMAIN urlMappings :
      extractSeed(urlMappings[j].k) = extractSeed(url) } }

\* C17: a placeholder URL that has no direct (exact or normalized) entry in the
\* mapping table but shares its parsed seed with the original URL of some entry is
\* resolved to the new URL of such an entry and recorded with replacementType
\* 'variant', even when its dimensions differ from the mapped original's.
SeedVariantResolved ==
  pc \in {"replacing", "replaced"} =>
    \A k \in 1..visited :
      LET c == ReplaceCalls(data0, <<>>, <<>>, 0)[k]
          urlMappings == createUrlMappings(results).urlMappings
      IN (/\ DirectMapping(c.url, urlMappings) = EmptyStr
          /\ extractSeed(c.url) /= EmptyStr
          /\ SeedSharing(urlMappings, c.url) /= {})
         => \E m \in DOMAIN result.replacement.mappings :
              /\ result.replacement.mappings[m].path = c.path
              /\ result.replacement.mappings[m].originalUrl = c.url
              /\ result.replacement.mappings[m].replacementType = "variant"
              /\ result.replacement.mappings[m].newUrl \in SeedSharing(urlMappings, c.url)

\* C19: in variant matching a seed match takes precedence over a dimension match: if
\* the mapping table contains an entry whose original URL shares the current URL's
\* seed, findVariantMapping resolves to a seed-sharing entry, whatever the order of
\* the table's entries and even if an entry with the same dimensions precedes it.
SeedBeforeDimensions ==
  \A k \in DOMAIN ReplaceCalls(data0, <<>>, <<>>, 0) :
    LET url == ReplaceCalls(data0, <<>>, <<>>, 0)[k].url
        urlMappings == createUrlMappings(results).urlMappings
    IN (extractSeed(url) /= EmptyStr /\ SeedSharing(urlMappings, url) /= {})
         => findVariantMapping(url, urlMappings) \in SeedSharing(urlMappings, url)

\* C18: for the document whose single object has two placeholder URLs of identical
\* dimensions in the fields thumb and banner (both 200x200), the analyzer places both
\* occurrences in one group, and the non-master occurrence gets processingType
\* 'reuse' with estimatedCost 0.1.
ThumbBannerGrouped ==
  (pc = "generate" /\ data0 = DocThumbBanner /\ options.enableOptimization) =>
    /\ Len(optimization.groups) = 1
    /\ Len(optimization.groups[1].variants) = 2
    /\ \A v \in DOMAIN optimization.groups[1].variants :
         optimization.groups[1].variants[v].imageId /= optimization.groups[1].masterImageId
           => /\ optimization.groups[1].variants[v].processingType = "reuse"
              /\ optimization.groups[1].variants[v].estimatedCost = 1

\* replaceUrl finds neither a direct nor a variant mapping for a URL
Unresolved(url, urlMappings) ==
  DirectMapping(url, urlMappings) = EmptyStr /\ findVariantMapping(url, urlMappings) = EmptyStr

\* the call c of replaceUrl took the result object from old to new by replacing
CountedAsReplaced(c, old, new) ==
  /\ new.replacedCount = old.replacedCount + 1
  /\ new.failedCount = old.failedCount
  /\ Len(new.mappings) = Len(old.mappings) + 1
  /\ SubSeq(new.mappings, 1, Len(old.mappings)) = old.mappings
  /\ new.mappings[Len(new.mappings)].path = c.path
  /\ new.mappings[Len(new.mappings)].originalUrl = c.url
  /\ new.mappings[Len(new.mappings)].replacementType \in {"direct", "variant", "fallback"}
  /\ new.errors = old.errors

\* the call c of replaceUrl took the result object from old to new by failing
CountedAsFailed(c, old, new, preserve) ==
  /\ new.failedCount = old.failedCount + 1
  /\ new.replacedCount = old.replacedCount
  /\ new.mappings = old.mappings
  /\ new.modifiedData = old.modifiedData
  /\ Len(new.errors) = Len(old.errors) + (IF preserve THEN 1 ELSE 0)

\* what a step that makes one more call of replaceUrl does to the result object
AccountedOnce ==
  visited' = visited + 1 =>
    LET c == ReplaceCalls(data0, <<>>, <<>>, 0)[visited']
        preserve == options.replacementOptions.preserveOriginalOnFailure
    IN /\ \/ CountedAsReplaced(c, result.replacement, result'.replacement)
          \/ CountedAsFailed(c, result.replacement, result'.replacement, preserve)
       /\ (preserve /\ Unresolved(c.url, createUrlMappings(results).urlMappings))
            => CountedAsFailed(c, result.replacement, result'.replacement, preserve)

\* C20: during and after replaceUrls the number of entries in mappings equals
\* replacedCount and each occurrence is accounted exactly once: a replaced occurrence
\* adds one mapping with its replacementType and increments replacedCount; an
\* unresolved occurrence with preserveOriginalOnFailure = true adds no mapping,
\* leaves the field's value unchanged, increments failedCount and appends one error
\* message.
MappingsAccounting ==
  /\ [](pc \in {"replacing", "replaced"} =>
          /\ Len(result.replacement.mappings) = result.replacement.replacedCount
          /\ result.replacement.replacedCount + result.replacement.failedCount = visited)
  /\ [][AccountedOnce]_vars

\* a run that preserves the original on failure, with one URL replaced and another
\* left unresolved
MappingsAccountingWitness ==
  /\ pc = "replaced" /\ options.replacementOptions.preserveOriginalOnFailure
  /\ result.replacement.replacedCount >= 1 /\ result.replacement.failedCount >= 1
  /\ Len(result.replacement.errors) = result.replacement.failedCount

Abs(n) == IF n < 0 THEN -n ELSE n

\* the width ratio target/master lies in [0.5, 2.0]
WidthRatioInRange(t, m) == 2 * t.width >= m.width /\ t.width <= 2 * m.width

\* the aspect ratios width/height of target and master differ by less than 0.1
AspectRatiosClose(t, m) == 10 * Abs(t.width * m.height - m.width * t.height) < t.height * m.height

\* the ratios target/master of the widths and of the heights differ by less than 0.1
ScaleRatiosClose(t, m) == 10 * Abs(t.width * m.height - t.height * m.width) < m.width * m.height

\* the non-master plans of the plan, each with the dimensions of its group's master
NonMasterPlans ==
  UNION { { [type |-> optimization.groups[g].variants[v].processingType,
             t |-> optimization.groups[g].variants[v].targetDimensions,
             m |-> optimization.groups[g].targetDimensions] :
            v \in 2..Len(optimization.groups[g].variants) } :
          g \in DOMAIN optimization.groups }

\* C21 as first stated: a non-master occurrence whose dimensions differ from the
\* master's is classified 'resize' if and only if the aspect ratios (width/height)
\* of target and master differ by less than 0.1 and the width ratio target/master
\* lies in [0.5, 2.0].
ResizeIffAspectRatiosClose ==
  pc = "planned" =>
    \A p \in NonMasterPlans :
      p.t /= p.m =>
        (p.type = "resize" <=> (AspectRatiosClose(p.t, p.m) /\ WidthRatioInRange(p.t, p.m)))

\* C21: a non-master occurrence whose dimensions differ from the master's is
\* classified 'resize' if and only if the ratios target/master of the widths and of
\* the heights differ by less than 0.1 and the width ratio lies in [0.5, 2.0]; the
\* classification cascade is reuse, else resize, else crop, else generate.
ResizeIffScaleRatiosClose ==
  pc = "planned" =>
    \A p \in NonMasterPlans :
      /\ p.type = "reuse" <=> p.t = p.m
      /\ p.t /= p.m =>
           (p.type = "resize" <=> (ScaleRatiosClose(p.t, p.m) /\ WidthRatioInRange(p.t, p.m)))
      /\ p.type = "crop" =>
           (p.t /= p.m /\ ~(ScaleRatiosClose(p.t, p.m) /\ WidthRatioInRange(p.t, p.m)))
      /\ p.type = "generate" =>
           /\ p.t /= p.m /\ ~(ScaleRatiosClose(p.t, p.m) /\ WidthRatioInRange(p.t, p.m))
           /\ ~(/\ p.t.width <= p.m.width /\ p.t.height <= p.m.height
                /\ 10 * p.t.width * p.t.height >= 6 * p.m.width * p.m.height)

\* a plan with a variant that is close to its master in aspect ratio, within the
\* width range, and yet not resized: 400x370 beside a master of 200x200
ResizeWitness ==
  /\ pc = "planned"
  /\ \E p \in NonMasterPlans :
       /\ AspectRatiosClose(p.t, p.m) /\ WidthRatioInRange(p.t, p.m)
       /\ ~ScaleRatiosClose(p.t, p.m) /\ p.type = "generate"

\* confidence * 100 + (width * height) / 10000 of an occurrence, times 10000, the
\* confidence being kept in tenths
ScoreOf(image) ==
  descriptions[image.path].confidence * 100000
  + image.dimensions.width * image.dimensions.height

\* the similarity groups of the input, in the order of the groups of the plan
SimilarityGroups == groupBySimilarity(images, descriptions)

\* member k of the group is the master the claim names: of maximal score, and the
\* first of the members of that score
IsFirstOfMaximalScore(members, k) ==
  \A j \in DOMAIN members :
    /\ ScoreOf(members[j]) <= ScoreOf(members[k])
    /\ j < k => ScoreOf(members[j]) < ScoreOf(members[k])

MembersOf(g) ==
  { optimization.groups[g].variants[v].imageId : v \in DOMAIN optimization.groups[g].variants }

\* the paths claimed by the groups before group g
ClaimedBefore(g) == UNION { MembersOf(h) : h \in 1..(g - 1) }

\* the occurrences of the input at a path (several, when an object key holds dots)
OccurrencesWith(path) == { images[i] : i \in { j \in DOMAIN images : images[j].path = path } }

\* the earliest occurrence of the input whose path is outside a set of paths
EarliestOutside(paths) ==
  images[CHOOSE i \in DOMAIN images :
           images[i].path \notin paths /\ \A j \in 1..(i - 1) : images[j].path \in paths]

\* the first member of group g: the earliest occurrence no earlier group claimed
FirstMember(g) == EarliestOutside(ClaimedBefore(g))

\* C23 (an occurrence being known to the plan by its path): grouping is greedy in
\* input order: the first member of each group is the
\* earliest occurrence not claimed by an earlier group; every other member has
\* description similarity or context similarity >= 0.8 with that first member; and
\* no occurrence left to a later group had similarity >= 0.8 with the first member
\* of an earlier group.
GreedyGrouping ==
  pc = "planned" =>
    \A g \in DOMAIN optimization.groups :
      /\ FirstMember(g).path \in MembersOf(g)
      /\ \A m \in MembersOf(g) \ {FirstMember(g).path} :
           \E o \in OccurrencesWith(m) : Similar(FirstMember(g), o, descriptions)
      /\ \A h \in 1..(g - 1) : \A m \in MembersOf(g) :
           \E o \in OccurrencesWith(m) : ~Similar(FirstMember(h), o, descriptions)

\* a group of three whose second and third member are not similar to each other,
\* before a later group
GreedyWitness ==
  /\ pc = "planned"
  /\ Len(optimization.groups) = 1
  /\ Len(images) = 3
  /\ Cardinality(MembersOf(1)) = 3
  /\ ~Similar(images[2], images[3], descriptions)

\* a later group whose members the first member of the group before it left behind
GreedyLaterGroupWitness ==
  /\ pc = "planned"
  /\ Len(optimization.groups) = 2
  /\ Cardinality(MembersOf(1)) = 2
  /\ images[2].path \in MembersOf(2)

-----------------------------------------------------------------------------
(* DescriptionGenerator.generateDescription under every descriptionOptions *)

\* the maxPromptLength values a caller configures; 0 stands for none
PromptCaps == {0, 2, 3, 40, 100, 200}

\* the descriptionOptions of a caller
DescriptionOptionSpace ==
  [language : {"italian", "english"},
   style : {"professional", "artistic", "realistic", "casual"},
   maxPromptLength : PromptCaps]

\* DescriptionGenerator.normalizeOptions: options.maxPromptLength || 200
NormalizeDescriptionOptions(o) ==
  [o EXCEPT !.maxPromptLength = IF o.maxPromptLength /= 0 THEN o.maxPromptLength ELSE 200]

\* the length in characters of a text, its words joined by single spaces
PromptLength(text) ==
  SumSeq([ w \in DOMAIN text |->
             SumSeq([ t \in DOMAIN text[w] |-> Len(text[w][t]) ]) ])
  + (IF text = <<>> THEN 0 ELSE Len(text) - 1)

\* String.prototype.substring(0, end): the number of characters it keeps of a
\* string of a length
SubstringLength(length, end) == Min2(Max2(end, 0), length)

\* enhancePrompt, lines 396-399: the enhanced prompt is the first kept characters of
\* text, followed by '...' when it was cut
LimitLength(text, maxPromptLength) ==
  IF maxPromptLength /= 0 /\ PromptLength(text) > maxPromptLength
  THEN [text |-> text, kept |-> SubstringLength(PromptLength(text), maxPromptLength - 3),
        ellipsis |-> TRUE]
  ELSE [text |-> text, kept |-> PromptLength(text), ellipsis |-> FALSE]

\* the length of what LimitLength returns
LimitedLength(limited) == limited.kept + (IF limited.ellipsis THEN 3 ELSE 0)

\* the occurrences described: those of the pool, and one whose field name holds two
\* keywords of FIELD_TYPE_MAPPING, the shorter one declared first
DescribedOccurrences ==
  OccurrencePool
  \cup { Occurrence(<<"h">>, <<"productthumbnail">>, 200, 200, ContextPlain, <<>>) }

InitDescribe ==
  /\ pc = "describing"
  /\ images \in { <<o>> : o \in DescribedOccurrences }
  /\ options \in DescriptionOptionSpace
  /\ descriptions = <<>>
  /\ optimization = NoOptimization
  /\ data = Null
  /\ data0 = Null
  /\ NoGeneration
  /\ stats = <<>>
  /\ result = InitialResult(Null)
  /\ caught = EmptyStr
  /\ visited = 0

\* DescriptionGenerator.generateDescription(imageInfo, options)
GenerateDescription ==
  /\ pc = "describing"
  /\ descriptions' =
       [ generateDescription(images[1], NormalizeDescriptionOptions(options)) EXCEPT
           !.enhancedPrompt = LimitLength(@, NormalizeDescriptionOptions(options).maxPromptLength) ]
  /\ pc' = "described"
  /\ UNCHANGED <<options, data, data0, images, optimization, batches, batchIndex,
                 running, outcome, results, providerCalls, stats, result, caught, visited>>

NextDescribe == GenerateDescription

SpecDescribe == InitDescribe /\ [][NextDescribe]_vars

\* C24: for every occurrence and configured maxPromptLength, the length of
\* enhancedPrompt is at most the cap; when truncation happens the result ends with
\* an ellipsis and still respects the cap.
PromptWithinCap ==
  pc = "described" =>
    /\ LimitedLength(descriptions.enhancedPrompt)
         <= NormalizeDescriptionOptions(options).maxPromptLength
    /\ descriptions.enhancedPrompt.kept < PromptLength(descriptions.enhancedPrompt.text)
         => descriptions.enhancedPrompt.ellipsis

\* the keywords of FIELD_TYPE_MAPPING a field name contains
MatchingKeywords(fieldName) ==
  { FIELD_TYPE_MAPPING[i].key :
      i \in { j \in DOMAIN FIELD_TYPE_MAPPING :
                FieldNameIncludes(fieldName, FIELD_TYPE_MAPPING[j].key) } }

\* C25: when a field name contains several keywords of the keyword-to-category
\* table, the category assigned is the longest matching keyword; only among
\* matching keywords of equal length does table declaration order decide.
LongestKeywordWins ==
  pc = "described" /\ MatchingKeywords(images[1].fieldName) /= {} =>
    /\ descriptions.category \in MatchingKeywords(images[1].fieldName)
    /\ \A key \in MatchingKeywords(images[1].fieldName) :
         Len(key) <= Len(descriptions.category)

\* the stages of processData, by the name of their phase record
StageNames ==
  <<"Image URL Extraction", "Description Generation", "Processing Optimization",
    "Image Generation", "URL Replacement">>

\* the stages started so far are the first of the five, in their order
StagesInOrder ==
  /\ Len(stats) <= Len(StageNames)
  /\ \A i \in DOMAIN stats : stats[i].phase = StageNames[i]

\* the step starts stage k
StageStarts(k) == Len(stats) = k - 1 /\ Len(stats') = k

\* every batch of the generation stage has completed
EveryBatchCompleted ==
  /\ batchIndex = Len(batches)
  /\ \A g \in DOMAIN optimization.groups : running[g] = "settled"
  /\ Len(results) = EntriesBefore(Len(optimization.groups) + 1)

\* a stage starts from a state that holds the result of the stage before it
StartsAfterPrevious ==
  /\ StageStarts(2) => result.extraction.totalFound > 0 /\ images /= <<>>
  /\ StageStarts(3) => DOMAIN descriptions = PathsOf(images)
  /\ StageStarts(4) => optimization.groups /= <<>> /\ results = <<>>
  /\ StageStarts(5) => EveryBatchCompleted

\* C26: within one processData run the five stages run strictly in the order
\* extraction, description, optimization, generation, replacement: no stage starts
\* before the previous stage has returned its result, and replacement does not
\* start before every batch of the generation stage has completed.
StagesSequential == []StagesInOrder /\ [][StartsAfterPrevious]_vars

\* a run through all five stages whose generation stage took several batches
StagesSequentialWitness ==
  /\ pc = "done"
  /\ Len(stats) = 5
  /\ Len(batches) >= 2

\* the plans of the optimization result: a group and a variant of it
PlansOf == { <<g, v>> \in (DOMAIN optimization.groups) \X (1..MaxImages) :
               v \in DOMAIN optimization.groups[g].variants }

\* the entries of the generation results with a path
EntriesWith(path) == { i \in DOMAIN results : results[i].path = path }

\* the plans of the optimization result with an imageId
PlansWith(imageId) ==
  { p \in PlansOf : optimization.groups[p[1]].variants[p[2]].imageId = imageId }

\* the generation stage has returned its results
GenerationReturned == pc \in {"replace", "done"} /\ Ran("Image Generation")

\* C27 as first stated: for every group and every variant there is exactly one
\* entry of the generation results whose path is that variant's imageId.
OneEntryPerImageId ==
  GenerationReturned =>
    \A p \in PlansOf :
      Cardinality(EntriesWith(optimization.groups[p[1]].variants[p[2]].imageId)) = 1

\* C27: the result list of the generation stage contains exactly one entry per plan
\* of the optimization result, whether the group succeeded, failed inside
\* processGroup or was rejected: the entries are as many as the plans, and the
\* entries of a path are as many as the plans of that imageId.
OneEntryPerPlan ==
  GenerationReturned =>
    /\ Len(results) = Cardinality(PlansOf)
    /\ \A i \in DOMAIN results : PlansWith(results[i].path) /= {}
    /\ \A p \in PlansOf :
         Cardinality(EntriesWith(optimization.groups[p[1]].variants[p[2]].imageId))
           = Cardinality(PlansWith(optimization.groups[p[1]].variants[p[2]].imageId))

\* the generation stage returned the entries of a group of several variants that
\* failed inside processGroup and of a group that succeeded
OneEntryPerPlanWitness ==
  /\ GenerationReturned
  /\ \E g \in DOMAIN outcome :
       /\ outcome[g].status = "fulfilled" /\ ~outcome[g].value[1].success
       /\ Len(optimization.groups[g].variants) >= 2
  /\ \E g \in DOMAIN outcome :
       outcome[g].status = "fulfilled" /\ outcome[g].value[1].success

\* the run is one that has nothing to replace: image replacement is disabled, or the
\* extraction has returned without a placeholder image
NothingToReplace ==
  \/ ~options.enableImageReplacement
  \/ /\ Ran("Image URL Extraction") /\ caught = EmptyStr
     /\ result.extraction.totalFound = 0

\* C28: when image replacement is disabled, or when extraction finds no placeholder
\* image, processData returns success = true with processedData being the input
\* document unchanged, and it makes no call to the generation provider and runs no
\* replacement.
NothingToReplaceReturnsInput ==
  NothingToReplace =>
    /\ pc \in {"start", "done"}
    /\ pc = "done" =>
         /\ result.success
         /\ result.processedData = data0
         /\ data = data0
         /\ result.errors = <<>>
    /\ providerCalls = <<>>
    /\ ~Ran("Image Generation")
    /\ ~Ran("URL Replacement")
    /\ result.replacement.replacedCount = 0
    /\ result.replacement.mappings = <<>>

\* processData has returned a document in which the extraction found nothing
NothingToReplaceWitness ==
  /\ pc = "done"
  /\ options.enableImageReplacement
  /\ NothingToReplace
  /\ data0 = DocNone

\* C29: every phase record that processData starts is ended before processData
\* returns, for every combination of options and every outcome of the stages: each
\* ProcessingStats entry added during the run has endTime set, and each run adds at
\* most one entry per stage.
EveryPhaseEnded ==
  pc = "done" =>
    /\ \A i \in DOMAIN stats : stats[i].ended
    /\ \A i, j \in DOMAIN stats : stats[i].phase = stats[j].phase => i = j

\* C30: round trip: for a tree-shaped document, UrlReplacer.rollbackReplacements on
\* the result of replaceUrls yields a document equal to the original input at every
\* path: every replaced location holds its original URL again and every other
\* location is untouched.
RollbackRestoresOriginal ==
  pc = "rolledback" =>
    /\ caught = EmptyStr
    /\ result.replacement.modifiedData = data0

====
